---- MODULE Spec2Model ----
(***************************************************************************)
(* The metadata catalog of autoencoded-vocal-analysis: the session manager *)
(* (ava/db/session.py), the repositories (ava/db/repository.py) and the    *)
(* populate step of the filesystem indexer (ava/data/indexer.py), over an  *)
(* embedded (sqlite) engine with its connection pool.                      *)
(***************************************************************************)
EXTENDS Integers, FiniteSets, Sequences, TLC

\* ------------------------------------------------------------------ bounds
MaxOps == 2        \* repository calls made, over all units of work
MaxSeq == 2        \* identity keys one table hands out to repository calls
MaxSegs == 2       \* segments (onset/offset pairs) one container holds
ReadSize == 2      \* bytes one f.read() returns (the code reads 8192 at a time)
MaxRows == 2       \* rows of each table of a catalog that queries are tried on
MaxChain == 2      \* filter calls made on one QueryDSL

\* The length of a SHA-256 digest in hexadecimal characters.
DigestLength == 64

Sessions == {1, 2}                       \* callers of get_session, one unit of work each
Conns == 1..Cardinality(Sessions)        \* connections the pool can open
Paths == {"a.h5", "b.h5"}                \* file paths of recordings
BulkSizes == {1, 2}                      \* rows passed to one bulk_create call

\* A parent id no row has (the tests insert children of recording/syllable 999).
MissingParentId == 999

VARIABLES
    engine,         \* "none" before create_engine_from_url, then "sqlite"
    pool,           \* the engine's queue of idle connections
    connPragma,     \* per connection: "unopened", or PRAGMA foreign_keys "ON" / "OFF"
    db,             \* the committed rows of the four tables
    seq,            \* per table: the last identity key handed out
    txn,            \* the uncommitted rows seen by the session holding the write lock
    writer,         \* the session holding sqlite's write lock, 0 when free
    pc,             \* per session: position inside get_session
    conn,           \* per session: the connection it holds, 0 when none
    tstate,         \* per session: Session transaction "none", "active" or "deactive"
    exc,            \* per session: the exception in flight, "none" when none
    bodyExc,        \* per session: the exception that left the with block
    nops,           \* repository calls made so far
    commitCalls,    \* per session: session.commit() calls in this unit of work
    rollbackCalls,  \* per session: session.rollback() calls in this unit of work
    closeCalls,     \* per session: session.close() calls in this unit of work
    stmtFailed,     \* per session: a statement of this unit of work raised
    flushed,        \* per session: the <<table, id>> rows this unit of work flushed
    dupPath,        \* per session: the path of a create this unit of work saw rejected
    fs,             \* per path: the container file on disk
    files,          \* per session: the hdf5_files populate_database was called with
    idx,            \* per session: the position in files of the file being indexed
    batch,          \* per session: syllables_batch, as the recording id of each row
    disk,           \* per path: what the filesystem holds there
    stage,          \* the position of the run_full_indexing call
    discovered,     \* run_full_indexing: discovered_files
    checksums,      \* the mapping compute_checksums returned, which populate_database is given
    summary,        \* what run_full_indexing returned or raised
    stagesRun,      \* the stages the run has executed, in order
    ret,            \* the outcome of the last indexer method called on its own
    catalog,        \* the committed rows, with their columns, that queries read
    dsl,            \* the QueryDSL under construction: its _query and its _joins
    answer,         \* the last query made and what it returned
    cli             \* the run of the command-line entry point

vars == <<engine, pool, connPragma, db, seq, txn, writer, pc, conn, tstate, exc,
          bodyExc, nops, commitCalls, rollbackCalls, closeCalls, stmtFailed, flushed,
          dupPath, fs, files, idx, batch, disk, stage, discovered, checksums,
          summary, stagesRun, ret, catalog, dsl, answer, cli>>

\* What the queries alone read and write.
queryVars == <<catalog, dsl, answer>>

\* What the indexer alone reads and writes.
runVars == <<disk, stage, discovered, checksums, summary, stagesRun, ret,
             queryVars, cli>>

popVars == <<fs, files, idx, batch, runVars>>

\* The calls get_session has made on its Session.
callVars == <<commitCalls, rollbackCalls, closeCalls>>

\* The engine, the database and the sessions.
sessVars == <<engine, pool, connPragma, db, seq, txn, writer, pc, conn, tstate, exc,
             bodyExc, nops, callVars, stmtFailed, flushed, dupPath>>

\* ------------------------------------------------------------ entity schema
Tables == {"recording", "syllable", "embedding", "annotation"}

EmptyDB == [recording |-> {}, syllable |-> {}, embedding |-> {}, annotation |-> {}]

NoTxn == EmptyDB

\* The last identity key each table of a catalog has handed out.
SeqOf(d) == [t \in Tables |-> Cardinality(d[t])]

\* What a flush yields in place of rows when the engine rejects it.
Violation == [error |-> "IntegrityError"]

Ids(rows) == {r.id : r \in rows}

\* Recording.file_path is unique.
UniquePaths(d) == \A r1, r2 \in d.recording : r1.path = r2.path => r1 = r2

\* Foreign keys: syllable.recording_id -> recording.id,
\* embedding.syllable_id -> syllable.id, annotation.syllable_id -> syllable.id.
ForeignKeysHold(d) ==
    /\ \A y \in d.syllable : y.recording_id \in Ids(d.recording)
    /\ \A e \in d.embedding : e.syllable_id \in Ids(d.syllable)
    /\ \A a \in d.annotation : a.syllable_id \in Ids(d.syllable)

\* ON DELETE CASCADE below a set of deleted syllable ids.
CascadeSyllables(d, sids) ==
    [d EXCEPT !.embedding = {e \in @ : e.syllable_id \notin sids},
              !.annotation = {a \in @ : a.syllable_id \notin sids}]

\* DELETE FROM recording WHERE id = rid, on a connection enforcing foreign
\* keys (cascade) or not (the row alone goes).
DeleteRecording(d, rid, fk) ==
    LET d1 == [d EXCEPT !.recording = {r \in @ : r.id # rid}]
        gone == {y.id : y \in {z \in d.syllable : z.recording_id = rid}}
    IN  IF fk
        THEN CascadeSyllables(
                 [d1 EXCEPT !.syllable = {y \in @ : y.recording_id # rid}], gone)
        ELSE d1

\* DELETE FROM syllable WHERE id = sid.
DeleteSyllable(d, sid, fk) ==
    LET d1 == [d EXCEPT !.syllable = {y \in @ : y.id # sid}]
    IN  IF fk THEN CascadeSyllables(d1, {sid}) ELSE d1

\* INSERT of one recording: the unique index rejects a second row of a path.
InsertRecording(d, path, checksum, base) ==
    IF \E r \in d.recording : r.path = path
    THEN Violation
    ELSE [d EXCEPT !.recording =
             @ \cup {[id |-> base + 1, path |-> path, checksum |-> checksum]}]

\* INSERT of syllables, one per recording id of the list, in one flush: a
\* connection enforcing foreign keys rejects the flush when a parent is missing.
InsertSyllables(d, rids, base, fk) ==
    LET rows == {[id |-> base + i, recording_id |-> rids[i]] : i \in 1..Len(rids)}
    IN  IF fk /\ \E i \in 1..Len(rids) : rids[i] \notin Ids(d.recording)
        THEN Violation
        ELSE [d EXCEPT !.syllable = @ \cup rows]

\* INSERT of embeddings or annotations, one per syllable id of the list.
InsertOfSyllable(d, table, sids, base, fk) ==
    LET rows == {[id |-> base + i, syllable_id |-> sids[i]] : i \in 1..Len(sids)}
    IN  IF fk /\ \E i \in 1..Len(sids) : sids[i] \notin Ids(d.syllable)
        THEN Violation
        ELSE [d EXCEPT ![table] = @ \cup rows]

\* ---------------------------------------------------------- session manager
\* Exceptions that `except Exception` catches; KeyboardInterrupt is not one.
IsException(e) == e \in {"IntegrityError", "OperationalError",
                         "PendingRollbackError", "RuntimeError"}

\* PRAGMA foreign_keys of a connection sqlite has just opened.
DefaultForeignKeys == "OFF"

\* A container file: whether h5py can read it with its four datasets, and the
\* number of onset/offset pairs it holds.
Containers == {[ok |-> FALSE, n |-> 0]} \cup {[ok |-> TRUE, n |-> k] : k \in 0..MaxSegs}

\* -------------------------------------------------------------- file system
\* The datasets a container must hold, in the order the indexer asks for them.
Required == <<"specs", "onsets", "offsets", "audio_filenames">>

RequiredKeys == {Required[i] : i \in 1..Len(Required)}

\* Path names the indexer methods are called with, next to those of
\* Paths, and the suffix of each name.
CallPaths == Paths \cup {"c.H5", "d.txt"}

Suffix == [p \in CallPaths |->
              IF p \in Paths THEN ".h5" ELSE IF p = "c.H5" THEN ".H5" ELSE ".txt"]

\* str.lower() on a suffix.
Lower(x) == IF x = ".H5" THEN ".h5" ELSE x

\* What a path holds: nothing, a directory, or a regular file, which can be
\* opened or not, is a container h5py can parse or not, holds some datasets,
\* `on` onsets and `off` offsets, and has some bytes.
Entry(kind, readable, parses, keys, on, off, bytes) ==
    [kind |-> kind, readable |-> readable, parses |-> parses, keys |-> keys,
     on |-> on, off |-> off, bytes |-> bytes]

Missing == Entry("missing", FALSE, FALSE, {}, 0, 0, <<>>)

Directory == Entry("dir", FALSE, FALSE, {}, 0, 0, <<>>)

\* A complete container with a onsets and b offsets.
Container(a, b) == Entry("file", TRUE, TRUE, RequiredKeys, a, b, <<a, b>>)

\* The entries an indexing run is tried on: no file, a directory, a file that
\* cannot be opened, a file that is no container, a container without its
\* offsets, and the complete containers.
DiskEntries ==
    {Missing, Directory,
     Entry("file", FALSE, TRUE, RequiredKeys, 1, 1, <<1, 1>>),
     Entry("file", TRUE, FALSE, {}, 0, 0, <<0>>),
     Entry("file", TRUE, TRUE, RequiredKeys \ {"offsets"}, 1, 0, <<1>>)}
    \cup {Container(a, b) : a \in 0..MaxSegs, b \in 0..MaxSegs}

\* The one RuntimeError an indexer method raises: its message, the paths and
\* datasets the message names, and the error it wraps ("" when none).
Error(msg, paths, names, cause) ==
    [type |-> "RuntimeError", msg |-> msg, paths |-> paths, names |-> names,
     cause |-> cause]

\* A method returned value v.
Returned(v) == [ok |-> TRUE, value |-> v]

\* A method raised error e.
Raised(e) == [ok |-> FALSE, error |-> e]

\* Faulty extraction: the datasets are read without the check that all four
\* are there, so the first one missing fails the read and a missing
\* audio_filenames, which is never read, goes unnoticed.
extract_without_key_check(p, d) ==
    LET read == SelectSeq(Required, LAMBDA k : k # "audio_filenames")
        missing_keys == SelectSeq(read, LAMBDA k : k \notin d[p].keys)
    IN
    IF d[p].kind # "file"
    THEN Raised(Error("HDF5 file not found or not a file", <<p>>, <<>>, ""))
    ELSE IF Suffix[p] \notin {".h5", ".hdf5"}
    THEN Raised(Error("Invalid file extension", <<>>, <<Suffix[p]>>, ""))
    ELSE IF ~d[p].readable \/ ~d[p].parses
    THEN Raised(Error("Failed to extract metadata from", <<p>>, <<>>, "OSError"))
    ELSE IF missing_keys # <<>>
    THEN Raised(Error("Failed to extract metadata from", <<p>>,
                      <<Head(missing_keys)>>, "KeyError"))
    ELSE Returned([onsets |-> d[p].on, offsets |-> d[p].off,
                   num_syllables |-> d[p].on])

\* extract_hdf5_metadata(hdf5_path), on filesystem d.
extract_hdf5_metadata(p, d) ==
    LET missing_keys == SelectSeq(Required, LAMBDA k : k \notin d[p].keys) IN
    IF d[p].kind # "file"
    THEN Raised(Error("HDF5 file not found or not a file", <<p>>, <<>>, ""))
    ELSE IF Suffix[p] \notin {".h5", ".hdf5"}
    THEN Raised(Error("Invalid file extension", <<>>, <<Suffix[p]>>, ""))
    ELSE IF ~d[p].readable \/ ~d[p].parses
    THEN Raised(Error("Failed to extract metadata from", <<p>>, <<>>, "OSError"))
    ELSE IF missing_keys # <<>>
    THEN Raised(Error("Failed to extract metadata from", <<p>>, missing_keys,
                      "Missing required datasets"))
    ELSE Returned([onsets |-> d[p].on, offsets |-> d[p].off,
                   num_syllables |-> d[p].on])

\* The lines validate_integrity collects over file_paths, in order.
RECURSIVE validation_errors(_, _)
validation_errors(paths, d) ==
    IF paths = <<>> THEN <<>>
    ELSE LET p == Head(paths)
             line == IF d[p].kind = "missing" THEN <<"File does not exist">>
                     ELSE IF d[p].kind # "file" THEN <<"Path is not a file">>
                     ELSE IF Lower(Suffix[p]) \notin {".h5", ".hdf5"}
                     THEN <<"Invalid file extension">>
                     ELSE <<>>
         IN  [i \in 1..Len(line) |-> [line |-> line[i], path |-> p]]
                 \o validation_errors(Tail(paths), d)

\* Faulty validation: the error is raised for the first offending path.
validate_integrity_stops_early(paths, d) ==
    LET errs == validation_errors(paths, d) IN
    IF errs # <<>>
    THEN Raised(Error("Integrity validation failed",
                      <<errs[1].path>>, <<errs[1].line>>, ""))
    ELSE Returned(TRUE)

\* validate_integrity(file_paths), on filesystem d.
validate_integrity(paths, d) ==
    LET errs == validation_errors(paths, d) IN
    IF errs # <<>>
    THEN Raised(Error("Integrity validation failed",
                      [i \in 1..Len(errs) |-> errs[i].path],
                      [i \in 1..Len(errs) |-> errs[i].line], ""))
    ELSE Returned(TRUE)

\* The bytes of a file as the reads of ReadSize bytes return them, up to the
\* empty read that ends the loop.
RECURSIVE read_chunks(_)
read_chunks(bytes) ==
    IF bytes = <<>> THEN <<>>
    ELSE IF Len(bytes) <= ReadSize THEN <<bytes>>
    ELSE <<SubSeq(bytes, 1, ReadSize)>>
             \o read_chunks(SubSeq(bytes, ReadSize + 1, Len(bytes)))

\* hash_algo.update(chunk): the state of the hash after the bytes of a chunk
\* (a small stand-in for the compression function of SHA-256).
RECURSIVE hash_update(_, _)
hash_update(h, chunk) ==
    IF chunk = <<>> THEN h
    ELSE hash_update((h * 31 + Head(chunk) + 1) % 251, Tail(chunk))

\* The state of the hash after every chunk read.
RECURSIVE hash_chunks(_, _)
hash_chunks(h, chunks) ==
    IF chunks = <<>> THEN h
    ELSE hash_chunks(hash_update(h, Head(chunks)), Tail(chunks))

HexChars == <<"0", "1", "2", "3", "4", "5", "6", "7",
              "8", "9", "a", "b", "c", "d", "e", "f">>

\* hash_algo.hexdigest(): the state written as DigestLength hex characters.
hexdigest(h) ==
    [i \in 1..DigestLength |->
        IF i = DigestLength THEN HexChars[(h % 16) + 1]
        ELSE IF i = DigestLength - 1 THEN HexChars[((h \div 16) % 16) + 1]
        ELSE "0"]

\* sha256(): the state of a hash that has been fed nothing.
sha256 == 7

\* Faulty hashing: the hash of the file before is fed further.
reused_hash(previous) == previous

\* compute_checksums line 123: each file gets a hash of its own, whatever
\* state the hash of the file before is in.
new_hash(previous) == sha256

\* The loop of compute_checksums over the paths left, with the mapping built
\* so far and the hash of the file before.
RECURSIVE checksum_loop(_, _, _, _)
checksum_loop(paths, d, sums, previous) ==
    IF paths = <<>> THEN Returned(sums)
    ELSE LET p == Head(paths)
             h == hash_chunks(new_hash(previous), read_chunks(d[p].bytes))
         IN  IF d[p].kind = "missing"
             THEN Raised(Error("Cannot compute checksum - file not found",
                               <<p>>, <<>>, ""))
             ELSE IF d[p].kind # "file" \/ ~d[p].readable
             THEN Raised(Error("Checksum computation failed for", <<p>>, <<>>,
                               "OSError"))
             ELSE checksum_loop(Tail(paths), d,
                                [q \in DOMAIN sums \cup {p} |->
                                    IF q = p THEN hexdigest(h) ELSE sums[q]],
                                h)

\* Faulty checksumming: paths that do not exist are passed over.
compute_checksums_skips_missing(paths, d) ==
    checksum_loop(SelectSeq(paths, LAMBDA p : d[p].kind # "missing"), d, <<>>, sha256)

\* compute_checksums(file_paths), on filesystem d.
compute_checksums(paths, d) == checksum_loop(paths, d, <<>>, sha256)

\* No indexer method has been called, and no run started.
NoCall == [op |-> "none"]

NoSummary == [status |-> "none"]

\* No run_full_indexing call has started and no method has been called.
NoRun ==
    /\ stage = "idle"
    /\ discovered = <<>>
    /\ summary = NoSummary
    /\ stagesRun = <<>>
    /\ ret = NoCall

RunIdle == NoRun /\ checksums = <<>>

\* No catalog is being queried, and no QueryDSL has been built.
NoCatalog == [recording |-> {}, syllable |-> {}, embedding |-> {}, annotation |-> {}]

NoDSL == [calls |-> <<"none">>]

QueryIdle ==
    /\ catalog = NoCatalog
    /\ dsl = NoDSL
    /\ answer = NoCall

\* The command-line entry point has not been started.
NoCli == [pc |-> "none"]

CliIdle == cli = NoCli

\* A filesystem without any of the paths.
NoDisk == [p \in CallPaths |-> Missing]

\* The files on disk while units of work are run by hand.
NoFiles == [p \in Paths |-> [ok |-> FALSE, n |-> 0]]

\* The digest compute_checksums gives a file of these bytes.
DigestOf(bytes) == hexdigest(hash_chunks(sha256, read_chunks(bytes)))

\* A catalog left by an earlier run, which found a.h5 a container of one
\* segment: one recording, carrying the checksum of that content, with one
\* syllable, which has one embedding and one annotation.
SeedDB == [recording |-> {[id |-> 1, path |-> "a.h5",
                           checksum |-> DigestOf(Container(1, 1).bytes)]},
           syllable |-> {[id |-> 1, recording_id |-> 1]},
           embedding |-> {[id |-> 1, syllable_id |-> 1]},
           annotation |-> {[id |-> 1, syllable_id |-> 1]}]

\* The checksum_sha256 the callers of RecordingRepository.create pass by hand.
TestChecksum == <<"a", "b", "c", "1", "2", "3">>

InitDB ==
    /\ engine = "none"
    /\ pool = <<>>
    /\ connPragma = [c \in Conns |-> "unopened"]
    /\ db \in {EmptyDB, SeedDB}
    /\ seq = SeqOf(db)
    /\ txn = NoTxn
    /\ writer = 0
    /\ pc = [s \in Sessions |-> "idle"]
    /\ conn = [s \in Sessions |-> 0]
    /\ tstate = [s \in Sessions |-> "none"]
    /\ exc = [s \in Sessions |-> "none"]
    /\ bodyExc = [s \in Sessions |-> "none"]
    /\ nops = 0
    /\ commitCalls = [s \in Sessions |-> 0]
    /\ rollbackCalls = [s \in Sessions |-> 0]
    /\ closeCalls = [s \in Sessions |-> 0]
    /\ stmtFailed = [s \in Sessions |-> FALSE]
    /\ flushed = [s \in Sessions |-> {}]
    /\ dupPath = [s \in Sessions |-> "-"]
    /\ files = [s \in Sessions |-> <<>>]
    /\ idx = [s \in Sessions |-> 0]
    /\ batch = [s \in Sessions |-> <<>>]

Init == InitDB /\ fs = NoFiles /\ disk = NoDisk /\ RunIdle /\ QueryIdle /\ CliIdle

\* The connection a pool checkout hands out: the head of the idle queue, or a
\* newly opened connection when the queue is empty.
NewConn == CHOOSE c \in Conns : connPragma[c] = "unopened" /\
               \A c2 \in Conns : connPragma[c2] = "unopened" => c <= c2

PoolConnect == IF pool # <<>> THEN Head(pool) ELSE NewConn

\* Faulty schema creation: the tables are dropped and created anew.
create_all_afresh(d) ==
    [recording |-> {}, syllable |-> {}, embedding |-> {}, annotation |-> {}]

\* Base.metadata.create_all(engine), which checks first: a table that exists
\* is left as it is, with its rows, and a table that is missing is created
\* without rows.
create_all(d) ==
    LET table(t) == IF t \in DOMAIN d THEN d[t] ELSE {} IN
    [recording |-> table("recording"), syllable |-> table("syllable"),
     embedding |-> table("embedding"), annotation |-> table("annotation")]

\* create_engine_from_url("sqlite:..."): one connection is checked out, PRAGMA
\* foreign_keys=ON is executed on it, and it goes back to the pool;
\* create_all then creates the (missing) tables.
SqliteEngine ==
    /\ engine = "none"
    /\ engine' = "sqlite"
    /\ connPragma' = [connPragma EXCEPT ![PoolConnect] = "ON"]
    /\ pool' = <<PoolConnect>>
    /\ db' = create_all(db)
    /\ UNCHANGED <<seq, txn, writer, pc, conn, tstate, exc, bodyExc, nops,
                   callVars, stmtFailed, flushed, dupPath>>

\* create_engine_from_url("sqlite:..."), called by the tests and by hand.
create_engine_from_url ==
    /\ SqliteEngine
    /\ UNCHANGED popVars

\* get_session lines 73-76: SessionLocal() and the yield; session s enters its
\* with block at position `at`.
Enter(s, at) ==
    /\ engine = "sqlite"
    /\ pc[s] = "idle"
    /\ \A s2 \in Sessions : s2 < s => pc[s2] # "idle"
    /\ pc' = [pc EXCEPT ![s] = at]
    /\ UNCHANGED <<engine, pool, connPragma, db, seq, txn, writer, conn, tstate, exc,
                   bodyExc, nops, callVars, stmtFailed, flushed, dupPath>>

\* with get_session(engine) as session, by a caller of the repositories.
get_session ==
    \E s \in Sessions : Enter(s, "body") /\ UNCHANGED popVars

\* The connection session s executes on (checked out on its first statement).
ConnOf(s) == IF conn[s] # 0 THEN conn[s] ELSE PoolConnect

\* Whether that connection enforces foreign keys.
FkOn(s) ==
    IF conn[s] = 0 /\ pool = <<>>
    THEN DefaultForeignKeys = "ON"
    ELSE connPragma[ConnOf(s)] = "ON"

\* Faulty isolation: every session reads the uncommitted rows of the writer.
View_read_uncommitted(s) == IF writer # 0 THEN txn ELSE db

\* The rows session s reads: its own uncommitted ones when it is the writer.
View(s) == IF writer = s THEN txn ELSE db

\* The Session takes its connection from the pool.
Checkout(s) ==
    /\ conn' = [conn EXCEPT ![s] = ConnOf(s)]
    /\ pool' = IF conn[s] = 0 /\ pool # <<>> THEN Tail(pool) ELSE pool
    /\ connPragma' = IF conn[s] = 0 /\ pool = <<>>
                     THEN [connPragma EXCEPT ![NewConn] = DefaultForeignKeys]
                     ELSE connPragma

\* The Session ends its transaction: the write lock is freed and the
\* connection goes back to the pool.
Release(s) ==
    /\ conn' = [conn EXCEPT ![s] = 0]
    /\ pool' = IF conn[s] # 0 THEN Append(pool, conn[s]) ELSE pool
    /\ tstate' = [tstate EXCEPT ![s] = "none"]
    /\ writer' = IF writer = s THEN 0 ELSE writer

\* Faulty engine: a second writer is not held off by the first one's lock.
ErrorOf_without_lock(s, isWrite, result) ==
    IF tstate[s] = "deactive" THEN "PendingRollbackError"
    ELSE IF isWrite /\ result = Violation THEN "IntegrityError"
    ELSE "none"

\* The error one statement of session s raises: a Session whose flush failed
\* refuses every further use; a second writer finds the database locked; the
\* engine rejects a row that violates a constraint.
ErrorOf(s, isWrite, result) ==
    IF tstate[s] = "deactive" THEN "PendingRollbackError"
    ELSE IF isWrite /\ writer \notin {0, s} THEN "OperationalError"
    ELSE IF isWrite /\ result = Violation THEN "IntegrityError"
    ELSE "none"

\* What one statement (a SELECT, or add/delete + flush) does to the Session of
\* s and to the database. `result` is the view after the flush, or Violation;
\* the statement inserts n rows into `table` (n = 0: none); `path` is the file
\* path of a recording it creates. A failed flush rolls the transaction back
\* at once and leaves the Session deactive.
Execute(s, isWrite, result, table, n, path) ==
    LET e == ErrorOf(s, isWrite, result)
        ran == e \in {"none", "IntegrityError"}
    IN
    /\ dupPath' = IF e = "IntegrityError" /\ path \in Paths
                  THEN [dupPath EXCEPT ![s] = path]
                  ELSE dupPath
    /\ seq' = IF ran /\ n > 0 THEN [seq EXCEPT ![table] = @ + n] ELSE seq
    /\ flushed' = IF e = "none" /\ n > 0
                  THEN [flushed EXCEPT ![s] =
                           @ \cup {<<table, seq[table] + i>> : i \in 1..n}]
                  ELSE flushed
    /\ stmtFailed' = IF e = "none" THEN stmtFailed ELSE [stmtFailed EXCEPT ![s] = TRUE]
    /\ IF tstate[s] = "deactive"
       THEN UNCHANGED <<conn, pool, connPragma, txn, writer, tstate>>
       ELSE /\ Checkout(s)
            /\ IF e = "none"
               THEN /\ tstate' = [tstate EXCEPT ![s] = "active"]
                    /\ IF isWrite
                       THEN txn' = result /\ writer' = s
                       ELSE UNCHANGED <<txn, writer>>
               ELSE /\ tstate' = [tstate EXCEPT ![s] = "deactive"]
                    /\ txn' = IF writer = s THEN NoTxn ELSE txn
                    /\ writer' = IF writer = s THEN 0 ELSE writer

\* The with block of session s is left by exception e.
Raise(s, e) ==
    /\ pc' = [pc EXCEPT ![s] = IF IsException(e) THEN "except" ELSE "finally"]
    /\ exc' = [exc EXCEPT ![s] = e]
    /\ bodyExc' = [bodyExc EXCEPT ![s] = e]

\* Faulty repository call: a write that succeeds is committed on the spot.
Statement_autocommits(s, isWrite, result, table, n, path) ==
    LET e == ErrorOf(s, isWrite, result) IN
    /\ pc[s] = "body"
    /\ nops < MaxOps
    /\ nops' = nops + 1
    /\ Execute(s, isWrite, result, table, n, path)
    /\ db' = IF isWrite /\ e = "none" THEN result ELSE db
    /\ IF e = "none"
       THEN UNCHANGED <<pc, exc, bodyExc>>
       ELSE \/ Raise(s, e)
            \/ UNCHANGED <<pc, exc, bodyExc>>
    /\ UNCHANGED <<engine, callVars, popVars>>

\* One repository call made inside the with block of session s. When it
\* raises, the caller lets the error propagate out of the with block or
\* catches it and goes on.
Statement(s, isWrite, result, table, n, path) ==
    LET e == ErrorOf(s, isWrite, result) IN
    /\ pc[s] = "body"
    /\ nops < MaxOps
    /\ nops' = nops + 1
    /\ Execute(s, isWrite, result, table, n, path)
    /\ IF e = "none"
       THEN UNCHANGED <<pc, exc, bodyExc>>
       ELSE \/ Raise(s, e)
            \/ UNCHANGED <<pc, exc, bodyExc>>
    /\ UNCHANGED <<engine, db, callVars, popVars>>

\* ------------------------------------------------------------ repositories
\* Lists of parent ids, of the sizes a bulk_create call is given.
ParentLists(ids) == UNION {[1..n -> ids] : n \in BulkSizes}

\* Faulty create: the row is added whether or not its path is taken.
RecordingRepository_create_overwrites ==
    \E s \in Sessions, p \in Paths :
        /\ seq["recording"] < MaxSeq
        /\ Statement(s, TRUE,
                     [View(s) EXCEPT !.recording =
                         @ \cup {[id |-> seq["recording"] + 1, path |-> p,
                                   checksum |-> TestChecksum]}],
                     "recording", 1, p)

\* RecordingRepository.create: add + flush.
RecordingRepository_create ==
    \E s \in Sessions, p \in Paths :
        /\ seq["recording"] < MaxSeq
        /\ Statement(s, TRUE,
                     InsertRecording(View(s), p, TestChecksum, seq["recording"]),
                     "recording", 1, p)

\* RecordingRepository.get_by_path: a SELECT.
RecordingRepository_get_by_path ==
    \E s \in Sessions, p \in Paths :
        Statement(s, FALSE, View(s), "recording", 0, "-")

\* RecordingRepository.delete: delete + flush, of a recording the session loaded.
RecordingRepository_delete ==
    \E s \in Sessions :
        \E r \in View(s).recording :
            Statement(s, TRUE, DeleteRecording(View(s), r.id, FkOn(s)),
                      "recording", 0, "-")

\* session.delete(syllable) + flush, as the schema tests do.
Session_delete_syllable ==
    \E s \in Sessions :
        \E y \in View(s).syllable :
            Statement(s, TRUE, DeleteSyllable(View(s), y.id, FkOn(s)),
                      "syllable", 0, "-")

\* SyllableRepository.bulk_create: add every row, then one flush.
SyllableRepository_bulk_create ==
    \E s \in Sessions :
        \E rids \in ParentLists(Ids(View(s).recording) \cup {MissingParentId}) :
            /\ seq["syllable"] + Len(rids) <= MaxSeq
            /\ Statement(s, TRUE,
                         InsertSyllables(View(s), rids, seq["syllable"], FkOn(s)),
                         "syllable", Len(rids),
                         "-")

\* EmbeddingRepository.create: add + flush.
EmbeddingRepository_create ==
    \E s \in Sessions :
        \E sid \in Ids(View(s).syllable) \cup {MissingParentId} :
            /\ seq["embedding"] < MaxSeq
            /\ Statement(s, TRUE,
                         InsertOfSyllable(View(s), "embedding", <<sid>>,
                                          seq["embedding"], FkOn(s)),
                         "embedding", 1,
                         "-")

\* AnnotationRepository.bulk_create: add every row, then one flush.
AnnotationRepository_bulk_create ==
    \E s \in Sessions :
        \E sids \in ParentLists(Ids(View(s).syllable) \cup {MissingParentId}) :
            /\ seq["annotation"] + Len(sids) <= MaxSeq
            /\ Statement(s, TRUE,
                         InsertOfSyllable(View(s), "annotation", sids,
                                          seq["annotation"], FkOn(s)),
                         "annotation", Len(sids),
                         "-")

\* ------------------------------------------------------------------ indexer
\* The hdf5_files lists populate_database is called with.
FileLists == {<<>>} \cup {<<p>> : p \in Paths} \cup
             {l \in [1..2 -> Paths] : l[1] # l[2]}

\* The paths of a list of files.
PathsOf(fl) == {fl[i] : i \in 1..Len(fl)}

\* The syllable rows of one file, as the recording id each row carries.
RowsOf(rid, n) == [i \in 1..n |-> rid]

\* The file session s is indexing.
File(s) == files[s][idx[s]]

\* The position after that file is done: the next file, or the bulk insert.
AfterFile(s) == IF idx[s] = Len(files[s]) THEN "p_bulk" ELSE "p_file"

\* populate_database line 137-141: the with block is entered, with an empty
\* syllables_batch.
PopulateEnter(s, fl) ==
    /\ Enter(s, IF fl = <<>> THEN "p_bulk" ELSE "p_file")
    /\ files' = [files EXCEPT ![s] = fl]
    /\ idx' = [idx EXCEPT ![s] = IF fl = <<>> THEN 0 ELSE 1]
    /\ batch' = [batch EXCEPT ![s] = <<>>]

\* indexer.populate_database(hdf5_files, checksums), called on its own.
populate_database ==
    \E s \in Sessions, fl \in FileLists :
        /\ PopulateEnter(s, fl)
        /\ UNCHANGED <<fs, runVars>>

\* Faulty indexing: the lookup by path is left out and a recording is created
\* for every file.
populate_database_always_creates ==
    \E s \in Sessions :
        /\ pc[s] = "p_file"
        /\ IF ~fs[File(s)].ok
           THEN /\ Raise(s, "RuntimeError")
                /\ UNCHANGED <<seq, txn, writer, conn, pool, connPragma, tstate,
                               stmtFailed, flushed, dupPath, idx, batch>>
           ELSE /\ Execute(s, FALSE, View(s), "recording", 0, "-")
                /\ pc' = [pc EXCEPT ![s] = "p_create"]
                /\ UNCHANGED <<exc, bodyExc, idx, batch>>
        /\ UNCHANGED <<engine, db, nops, callVars, fs, files, runVars>>

\* Faulty indexing: a file that cannot be read is skipped and the run goes on.
populate_database_skips_unreadable ==
    \E s \in Sessions :
        /\ pc[s] = "p_file"
        /\ LET p == File(s)
               found == {r \in View(s).recording : r.path = p}
           IN
           IF ~fs[p].ok
           THEN /\ pc' = [pc EXCEPT ![s] = AfterFile(s)]
                /\ idx' = [idx EXCEPT ![s] = IF @ = Len(files[s]) THEN @ ELSE @ + 1]
                /\ UNCHANGED <<seq, txn, writer, conn, pool, connPragma, tstate,
                               stmtFailed, flushed, dupPath, batch, exc, bodyExc>>
           ELSE /\ Execute(s, FALSE, View(s), "recording", 0, "-")
                /\ UNCHANGED <<exc, bodyExc>>
                /\ IF found = {}
                   THEN /\ pc' = [pc EXCEPT ![s] = "p_create"]
                        /\ UNCHANGED <<idx, batch>>
                   ELSE /\ pc' = [pc EXCEPT ![s] = AfterFile(s)]
                        /\ idx' = [idx EXCEPT ![s] = IF @ = Len(files[s]) THEN @ ELSE @ + 1]
                        /\ batch' = [batch EXCEPT ![s] =
                               @ \o RowsOf((CHOOSE r \in found : TRUE).id, fs[p].n)]
        /\ UNCHANGED <<engine, db, nops, callVars, fs, files, runVars>>

\* Faulty indexing: the rows of a file whose recording exists are taken to be
\* in the catalog already and are not inserted again.
populate_database_skips_known ==
    \E s \in Sessions :
        /\ pc[s] = "p_file"
        /\ LET p == File(s)
               found == {r \in View(s).recording : r.path = p}
           IN
           IF ~fs[p].ok
           THEN /\ Raise(s, "RuntimeError")
                /\ UNCHANGED <<seq, txn, writer, conn, pool, connPragma, tstate,
                               stmtFailed, flushed, dupPath, idx, batch>>
           ELSE /\ Execute(s, FALSE, View(s), "recording", 0, "-")
                /\ UNCHANGED <<exc, bodyExc>>
                /\ IF found = {}
                   THEN /\ pc' = [pc EXCEPT ![s] = "p_create"]
                        /\ UNCHANGED <<idx, batch>>
                   ELSE /\ pc' = [pc EXCEPT ![s] = AfterFile(s)]
                        /\ idx' = [idx EXCEPT ![s] = IF @ = Len(files[s]) THEN @ ELSE @ + 1]
                        /\ UNCHANGED batch
        /\ UNCHANGED <<engine, db, nops, callVars, fs, files, runVars>>

\* populate_database lines 143-148 and 156-168: the metadata and checksum of
\* the next file are read, and the recording is looked up by path. A file
\* that cannot be read raises inside the try and leaves as RuntimeError; a
\* recording that exists is reused and the file's rows join the batch.
populate_database_get_by_path ==
    \E s \in Sessions :
        /\ pc[s] = "p_file"
        /\ LET p == File(s)
               found == {r \in View(s).recording : r.path = p}
           IN
           IF ~fs[p].ok
           THEN /\ Raise(s, "RuntimeError")
                /\ UNCHANGED <<seq, txn, writer, conn, pool, connPragma, tstate,
                               stmtFailed, flushed, dupPath, idx, batch>>
           ELSE /\ Execute(s, FALSE, View(s), "recording", 0, "-")
                /\ UNCHANGED <<exc, bodyExc>>
                /\ IF found = {}
                   THEN /\ pc' = [pc EXCEPT ![s] = "p_create"]
                        /\ UNCHANGED <<idx, batch>>
                   ELSE /\ pc' = [pc EXCEPT ![s] = AfterFile(s)]
                        /\ idx' = [idx EXCEPT ![s] = IF @ = Len(files[s]) THEN @ ELSE @ + 1]
                        /\ batch' = [batch EXCEPT ![s] =
                               @ \o RowsOf((CHOOSE r \in found : TRUE).id, fs[p].n)]
        /\ UNCHANGED <<engine, db, nops, callVars, fs, files, runVars>>

\* populate_database lines 149-155 and 159-172: the recording is created and
\* the file's rows join the batch; an error of the create is raised again as
\* RuntimeError.
populate_database_create ==
    \E s \in Sessions :
        /\ pc[s] = "p_create"
        /\ LET p == File(s)
               result == InsertRecording(View(s), p, checksums[p], seq["recording"])
               e == ErrorOf(s, TRUE, result)
           IN
           /\ Execute(s, TRUE, result, "recording", 1, p)
           /\ IF e = "none"
              THEN /\ pc' = [pc EXCEPT ![s] = AfterFile(s)]
                   /\ idx' = [idx EXCEPT ![s] = IF @ = Len(files[s]) THEN @ ELSE @ + 1]
                   /\ batch' = [batch EXCEPT ![s] =
                                   @ \o RowsOf(seq["recording"] + 1, fs[p].n)]
                   /\ UNCHANGED <<exc, bodyExc>>
              ELSE /\ Raise(s, "RuntimeError")
                   /\ UNCHANGED <<idx, batch>>
        /\ UNCHANGED <<engine, db, nops, callVars, fs, files, runVars>>

\* populate_database line 174: syllable_repo.bulk_create(syllables_batch),
\* outside the try; the flush of an empty batch executes nothing.
populate_database_bulk_create ==
    \E s \in Sessions :
        /\ pc[s] = "p_bulk"
        /\ LET result == InsertSyllables(View(s), batch[s], seq["syllable"], FkOn(s))
               e == ErrorOf(s, TRUE, result)
           IN
           IF batch[s] = <<>>
           THEN /\ pc' = [pc EXCEPT ![s] = "p_done"]
                /\ UNCHANGED <<seq, txn, writer, conn, pool, connPragma, tstate,
                               stmtFailed, flushed, dupPath, exc, bodyExc>>
           ELSE /\ Execute(s, TRUE, result, "syllable", Len(batch[s]), "-")
                /\ IF e = "none"
                   THEN /\ pc' = [pc EXCEPT ![s] = "p_done"]
                        /\ UNCHANGED <<exc, bodyExc>>
                   ELSE Raise(s, e)
        /\ UNCHANGED <<engine, db, nops, callVars, popVars>>

\* ------------------------------------------------- get_session, after the yield
\* The unit of work raises an error of its own inside the with block.
BodyRaises ==
    \E s \in Sessions, e \in {"RuntimeError", "KeyboardInterrupt"} :
        /\ pc[s] = "body"
        /\ Raise(s, e)
        /\ UNCHANGED <<engine, pool, connPragma, db, seq, txn, writer, conn, tstate, nops,
                       callVars, stmtFailed, flushed, dupPath, popVars>>

\* Faulty commit: the transaction ends but its rows are not written.
SessionCommit_writes_nothing(s) ==
    /\ commitCalls' = [commitCalls EXCEPT ![s] = @ + 1]
    /\ IF tstate[s] = "deactive"
       THEN /\ pc' = [pc EXCEPT ![s] = "except"]
            /\ exc' = [exc EXCEPT ![s] = "PendingRollbackError"]
            /\ UNCHANGED <<db, txn, writer, conn, pool, tstate>>
       ELSE /\ txn' = IF writer = s THEN NoTxn ELSE txn
            /\ Release(s)
            /\ pc' = [pc EXCEPT ![s] = "finally"]
            /\ UNCHANGED <<db, exc>>

\* Faulty commit: a Session whose flush failed commits without complaint.
SessionCommit_after_failure(s) ==
    /\ commitCalls' = [commitCalls EXCEPT ![s] = @ + 1]
    /\ db' = IF writer = s THEN txn ELSE db
    /\ txn' = IF writer = s THEN NoTxn ELSE txn
    /\ Release(s)
    /\ pc' = [pc EXCEPT ![s] = "finally"]
    /\ UNCHANGED exc

\* session.commit(): a deactive Session raises PendingRollbackError; otherwise
\* the writer's rows become the committed ones and the connection is released.
SessionCommit(s) ==
    /\ commitCalls' = [commitCalls EXCEPT ![s] = @ + 1]
    /\ IF tstate[s] = "deactive"
       THEN /\ pc' = [pc EXCEPT ![s] = "except"]
            /\ exc' = [exc EXCEPT ![s] = "PendingRollbackError"]
            /\ UNCHANGED <<db, txn, writer, conn, pool, tstate>>
       ELSE /\ db' = IF writer = s THEN txn ELSE db
            /\ txn' = IF writer = s THEN NoTxn ELSE txn
            /\ Release(s)
            /\ pc' = [pc EXCEPT ![s] = "finally"]
            /\ UNCHANGED exc

\* Faulty rollback: the uncommitted rows are written instead of dropped.
SessionRollback_keeps(s) ==
    /\ rollbackCalls' = [rollbackCalls EXCEPT ![s] = @ + 1]
    /\ db' = IF writer = s THEN txn ELSE db
    /\ txn' = IF writer = s THEN NoTxn ELSE txn
    /\ Release(s)

\* session.rollback(): the uncommitted rows are dropped.
SessionRollback(s) ==
    /\ rollbackCalls' = [rollbackCalls EXCEPT ![s] = @ + 1]
    /\ txn' = IF writer = s THEN NoTxn ELSE txn
    /\ Release(s)
    /\ UNCHANGED db

\* Faulty close: the Session keeps its transaction and its connection.
SessionClose_leaks(s) ==
    /\ closeCalls' = [closeCalls EXCEPT ![s] = @ + 1]
    /\ UNCHANGED <<db, txn, writer, conn, pool, tstate>>

\* session.close(): whatever transaction is still open is dropped.
SessionClose(s) ==
    /\ closeCalls' = [closeCalls EXCEPT ![s] = @ + 1]
    /\ txn' = IF writer = s THEN NoTxn ELSE txn
    /\ Release(s)
    /\ UNCHANGED db

\* get_session line 77: the with block is left normally and control resumes
\* after the yield, at session.commit().
get_session_commit ==
    \E s \in Sessions :
        /\ pc[s] \in {"body", "p_done"}
        /\ SessionCommit(s)
        /\ UNCHANGED <<engine, connPragma, seq, bodyExc, nops, rollbackCalls,
                       closeCalls, stmtFailed, flushed, dupPath, popVars>>

\* get_session lines 78-80: except Exception: session.rollback(); raise.
get_session_except ==
    \E s \in Sessions :
        /\ pc[s] = "except"
        /\ SessionRollback(s)
        /\ pc' = [pc EXCEPT ![s] = "finally"]
        /\ UNCHANGED <<engine, connPragma, seq, exc, bodyExc, nops, commitCalls,
                       closeCalls, stmtFailed, flushed, dupPath, popVars>>

\* get_session lines 81-82: finally: session.close(); then the with statement
\* ends, normally or with the exception in flight.
get_session_finally ==
    \E s \in Sessions :
        /\ pc[s] = "finally"
        /\ SessionClose(s)
        /\ pc' = [pc EXCEPT ![s] = IF exc[s] = "none" THEN "returned" ELSE "raised"]
        /\ UNCHANGED <<engine, connPragma, seq, exc, bodyExc, nops, commitCalls,
                       rollbackCalls, stmtFailed, flushed, dupPath, popVars>>

\* ------------------------------------------------------------ specifications
\* Units of work made of repository calls.
Next ==
    \/ create_engine_from_url
    \/ get_session
    \/ RecordingRepository_create
    \/ RecordingRepository_get_by_path
    \/ RecordingRepository_delete
    \/ Session_delete_syllable
    \/ SyllableRepository_bulk_create
    \/ EmbeddingRepository_create
    \/ AnnotationRepository_bulk_create
    \/ BodyRaises
    \/ get_session_commit
    \/ get_session_except
    \/ get_session_finally

Spec == Init /\ [][Next]_vars

\* Indexing runs, next to units of work that create and look up recordings.
\* populate_database is called with the checksums its caller computed of the
\* files as they are.
InitIngest ==
    /\ InitDB
    /\ fs \in [Paths -> Containers]
    /\ disk = NoDisk
    /\ NoRun
    /\ checksums = [p \in Paths |-> DigestOf(<<fs[p].n, fs[p].n>>)]
    /\ QueryIdle
    /\ CliIdle

NextIngest ==
    \/ create_engine_from_url
    \/ get_session
    \/ populate_database
    \/ populate_database_get_by_path
    \/ populate_database_create
    \/ populate_database_bulk_create
    \/ RecordingRepository_create
    \/ RecordingRepository_get_by_path
    \/ BodyRaises
    \/ get_session_commit
    \/ get_session_except
    \/ get_session_finally

SpecIngest == InitIngest /\ [][NextIngest]_vars

\* -------------------------------------------------------- run_full_indexing
\* The session populate_database opens for the run.
RunSession == 1

\* What extract_hdf5_metadata and the zip of onsets and offsets make of the
\* files of filesystem d, as populate_database sees them.
FsOf(d) ==
    [p \in Paths |->
        LET r == extract_hdf5_metadata(p, d) IN
        IF r.ok
        THEN [ok |-> TRUE,
              n |-> IF r.value.onsets <= r.value.offsets
                    THEN r.value.onsets ELSE r.value.offsets]
        ELSE [ok |-> FALSE, n |-> 0]]

InitIndex ==
    /\ InitDB
    /\ disk \in {d \in [CallPaths -> DiskEntries] :
                    \A p \in CallPaths \ Paths : d[p] = Missing}
    /\ fs = FsOf(disk)
    /\ RunIdle
    /\ QueryIdle
    /\ CliIdle

\* scan_files line 78: the suffixes the discovery keeps of what the glob
\* matched.
scan_keeps(p) == Suffix[p] = ".h5" \/ Suffix[p] = ".hdf5"

\* scan_files(base_dir): what the glob **/*.h5 matches, files and directories
\* alike, in the order the filesystem lists them.
scan_files(d) ==
    {l \in FileLists : PathsOf(l) = {p \in Paths : d[p].kind # "missing"}}

\* The stages of a run, as they are recorded in stagesRun.
Stages == <<"scan", "validate", "checksum", "populate", "summary">>

\* The run raises: whatever a stage raised is raised again as RuntimeError.
Fail(e) ==
    /\ stage' = "failed"
    /\ summary' = [status |-> "failed", error |-> "RuntimeError", cause |-> e]

\* The sum, over the files, of the number of onsets a new extraction finds.
RECURSIVE total_syllables(_, _)
total_syllables(paths, d) ==
    IF paths = <<>> THEN Returned(0)
    ELSE LET r == extract_hdf5_metadata(Head(paths), d)
             rest == total_syllables(Tail(paths), d)
         IN  IF ~r.ok THEN r
             ELSE IF ~rest.ok THEN rest
             ELSE Returned(r.value.onsets + rest.value)

\* Faulty run: an empty discovery goes on to the next stages.
run_full_indexing_scan_goes_on ==
    \E found \in scan_files(disk) :
        /\ engine = "sqlite"
        /\ stage = "idle"
        /\ discovered' = found
        /\ stagesRun' = <<"scan">>
        /\ stage' = "validating"
        /\ UNCHANGED <<sessVars, fs, files, idx, batch, disk, checksums, summary, ret, queryVars, cli>>

\* run_full_indexing lines 203-208: scan_files, and the early return when
\* nothing was discovered.
run_full_indexing_scan ==
    \E found \in scan_files(disk) :
        /\ engine = "sqlite"
        /\ stage = "idle"
        /\ discovered' = found
        /\ stagesRun' = <<"scan">>
        /\ IF found = <<>>
           THEN /\ stage' = "completed"
                /\ summary' = [status |-> "completed", indexed_files |-> 0,
                                errors |-> <<>>]
           ELSE /\ stage' = "validating"
                /\ UNCHANGED summary
        /\ UNCHANGED <<sessVars, fs, files, idx, batch, disk, checksums, ret, queryVars, cli>>

\* Faulty run: the outcome of the validation is ignored.
run_full_indexing_validate_ignored ==
    /\ stage = "validating"
    /\ stagesRun' = Append(stagesRun, "validate")
    /\ stage' = "checksumming"
    /\ UNCHANGED <<sessVars, fs, files, idx, batch, disk, discovered, checksums,
                   summary, ret, queryVars, cli>>

\* run_full_indexing line 211: validate_integrity(discovered_files).
run_full_indexing_validate ==
    /\ stage = "validating"
    /\ stagesRun' = Append(stagesRun, "validate")
    /\ LET r == validate_integrity(discovered, disk) IN
       IF r.ok
       THEN stage' = "checksumming" /\ UNCHANGED summary
       ELSE Fail(r.error.msg)
    /\ UNCHANGED <<sessVars, fs, files, idx, batch, disk, discovered, checksums, ret, queryVars, cli>>

\* run_full_indexing line 214: compute_checksums(discovered_files).
run_full_indexing_checksum ==
    /\ stage = "checksumming"
    /\ stagesRun' = Append(stagesRun, "checksum")
    /\ LET r == compute_checksums(discovered, disk) IN
       IF r.ok
       THEN stage' = "populating" /\ checksums' = r.value /\ UNCHANGED summary
       ELSE Fail(r.error.msg) /\ UNCHANGED checksums
    /\ UNCHANGED <<sessVars, fs, files, idx, batch, disk, discovered, ret, queryVars, cli>>

\* run_full_indexing line 217: populate_database(discovered_files, checksums)
\* is entered; its steps are those of populate_database and get_session.
run_full_indexing_populate ==
    /\ stage = "populating"
    /\ stagesRun' = Append(stagesRun, "populate")
    /\ stage' = "in_populate"
    /\ PopulateEnter(RunSession, discovered)
    /\ UNCHANGED <<fs, disk, discovered, checksums, summary, ret, queryVars, cli>>

\* run_full_indexing lines 219-228: populate_database has returned; the
\* files are extracted once more for the total, and the summary is returned.
run_full_indexing_summary ==
    /\ stage = "in_populate"
    /\ pc[RunSession] = "returned"
    /\ stagesRun' = Append(stagesRun, "summary")
    /\ LET r == total_syllables(discovered, disk) IN
       IF r.ok
       THEN /\ stage' = "completed"
            /\ summary' = [status |-> "completed",
                            indexed_files |-> Len(discovered),
                            total_syllables |-> r.value,
                            checksums_computed |-> Cardinality(DOMAIN checksums),
                            errors |-> <<>>]
       ELSE Fail(r.error.msg)
    /\ UNCHANGED <<sessVars, fs, files, idx, batch, disk, discovered, checksums, ret, queryVars, cli>>

\* Faulty run: an error of populate_database is swallowed and the population
\* is tried again.
run_full_indexing_except_retries ==
    /\ stage = "in_populate"
    /\ pc[RunSession] = "raised"
    /\ stage' = "populating"
    /\ UNCHANGED <<sessVars, fs, files, idx, batch, disk, discovered, checksums,
                   summary, stagesRun, ret, queryVars, cli>>

\* run_full_indexing lines 230-233: populate_database has raised.
run_full_indexing_except ==
    /\ stage = "in_populate"
    /\ pc[RunSession] = "raised"
    /\ Fail(exc[RunSession])
    /\ UNCHANGED <<sessVars, fs, files, idx, batch, disk, discovered, checksums,
                   stagesRun, ret, queryVars, cli>>

\* Someone removes a file while the run is under way.
file_removed ==
    \E p \in Paths :
        /\ stage \notin {"idle", "completed", "failed"}
        /\ disk[p].kind # "missing"
        /\ disk' = [disk EXCEPT ![p] = Missing]
        /\ fs' = FsOf(disk')
        /\ UNCHANGED <<sessVars, files, idx, batch, stage, discovered, checksums,
                       summary, stagesRun, ret, queryVars, cli>>

NextIndex ==
    \/ create_engine_from_url
    \/ run_full_indexing_scan
    \/ run_full_indexing_validate
    \/ run_full_indexing_checksum
    \/ run_full_indexing_populate
    \/ populate_database_get_by_path
    \/ populate_database_create
    \/ populate_database_bulk_create
    \/ get_session_commit
    \/ get_session_except
    \/ get_session_finally
    \/ run_full_indexing_summary
    \/ run_full_indexing_except
    \/ file_removed

SpecIndex == InitIndex /\ [][NextIndex]_vars

\* The steps of the thread that executes run_full_indexing: the call and
\* everything it calls.
RunStep ==
    \/ run_full_indexing_scan
    \/ run_full_indexing_validate
    \/ run_full_indexing_checksum
    \/ run_full_indexing_populate
    \/ populate_database_get_by_path
    \/ populate_database_create
    \/ populate_database_bulk_create
    \/ get_session_commit
    \/ get_session_except
    \/ get_session_finally
    \/ run_full_indexing_summary
    \/ run_full_indexing_except

\* The run is one sequential thread, which goes on to its next statement
\* whenever it has one; nothing is assumed of who creates the engine or
\* removes files.
SpecIndexLive == SpecIndex /\ WF_vars(RunStep)

\* ------------------------------------------- indexer methods called on their own
\* The file_paths lists a method is called with: repeats are allowed.
CallLists == {<<>>} \cup {<<p>> : p \in CallPaths} \cup [1..2 -> CallPaths]

\* File contents the checksums are tried on.
ByteSeqs == {<<>>, <<1>>, <<0, 1>>, <<1, 0, 1>>}

\* Filesystems that hold entries of a set at the paths of a list and nothing
\* elsewhere.
DisksFor(paths, entries) ==
    {[p \in CallPaths |-> IF p \in PathsOf(paths) THEN g[p] ELSE Missing] :
        g \in [PathsOf(paths) -> entries \cup {Missing}]}

\* What is kept of a call: the method, its arguments, the filesystem it ran
\* on, and what it returned or raised.
Call(op, paths, d, out) == [op |-> op, paths |-> paths, disk |-> d, out |-> out]

\* indexer.validate_integrity(file_paths)
validate_integrity_call ==
    /\ ret = NoCall
    /\ \E paths \in CallLists :
        \E d \in DisksFor(paths, {Directory, Container(1, 1)}) :
            /\ ret' = Call("validate_integrity", paths, d, validate_integrity(paths, d))
            /\ UNCHANGED <<sessVars, fs, files, idx, batch, disk, stage, discovered,
                           checksums, summary, stagesRun, queryVars, cli>>

\* The values of ingest.checksum the indexer is configured with: the default
\* of IngestConfig and other algorithms of hashlib.
ChecksumNames == {"sha256", "md5", "sha1"}

\* The length of the hexdigest of each of these algorithms.
hexdigest_length ==
    [a \in ChecksumNames |->
        CASE a = "sha256" -> DigestLength
          [] a = "md5" -> DigestLength \div 2
          [] a = "sha1" -> (5 * DigestLength) \div 8]

\* FilesystemIndexer(config, engine).compute_checksums(file_paths)
compute_checksums_call ==
    /\ ret = NoCall
    /\ \E paths \in CallLists, checksum \in ChecksumNames :
        \E d \in DisksFor(paths,
                    {Directory, Entry("file", FALSE, FALSE, {}, 0, 0, <<1>>)}
                    \cup {Entry("file", TRUE, FALSE, {}, 0, 0, b) : b \in ByteSeqs}) :
            /\ ret' = [op |-> "compute_checksums",
                       config |-> [ingest |-> [checksum |-> checksum]],
                       paths |-> paths, disk |-> d,
                       out |-> compute_checksums(paths, d)]
            /\ UNCHANGED <<sessVars, fs, files, idx, batch, disk, stage, discovered,
                           checksums, summary, stagesRun, queryVars, cli>>

\* indexer.extract_hdf5_metadata(hdf5_path)
extract_hdf5_metadata_call ==
    /\ ret = NoCall
    /\ \E p \in CallPaths :
        \E d \in DisksFor(<<p>>,
                    DiskEntries \cup
                    {Entry("file", TRUE, TRUE, k, 0, 0, <<>>) : k \in SUBSET RequiredKeys}) :
            /\ ret' = Call("extract_hdf5_metadata", <<p>>, d, extract_hdf5_metadata(p, d))
            /\ UNCHANGED <<sessVars, fs, files, idx, batch, disk, stage, discovered,
                           checksums, summary, stagesRun, queryVars, cli>>

NextFiles ==
    \/ validate_integrity_call
    \/ compute_checksums_call
    \/ extract_hdf5_metadata_call

SpecFiles == Init /\ [][NextFiles]_vars

\* -------------------------------------------------------------------- queries
\* None, and the NULL the engine gets for it.
None == -1

RowIds == 1..MaxRows

\* Times (start_time, created_at) and durations, in ticks.
Times == {0, 1}

Durations == {1, 2}

Labels == {"call_A", "call_B"}

ModelTags == {"vae_v1", "vae_v2"}

\* The rows of a table when nothing is said about them.
BaseRecording(i) == [id |-> i, created_at |-> 0]

BaseSyllable(i) ==
    [id |-> i, recording_id |-> 1, start_time |-> MaxRows - i,
     end_time |-> MaxRows - i + 1]

BaseEmbedding(i) == [id |-> i, syllable_id |-> i, model_version |-> "vae_v1"]

BaseAnnotation(i) ==
    [id |-> i, syllable_id |-> i, annotation_type |-> "label", key |-> "call_type",
     value |-> "call_A", created_at |-> 0]

BaseCatalog ==
    [recording |-> {BaseRecording(i) : i \in RowIds},
     syllable |-> {BaseSyllable(i) : i \in RowIds},
     embedding |-> {BaseEmbedding(i) : i \in RowIds},
     annotation |-> {BaseAnnotation(i) : i \in RowIds}]

\* The parents the rows of a varied table are given.
ParentIds == {1, 2}

\* The catalogs queries are tried on: each varies the rows of one table.
\* Syllables of any start and duration; syllables of either recording, with
\* recordings of any creation time; embeddings of two models, on one syllable
\* or on two; annotations of two values, on one syllable or on two;
\* annotations of one syllable that differ in type, key or creation time.
Catalogs ==
    {[BaseCatalog EXCEPT !.syllable =
         {[BaseSyllable(i) EXCEPT !.start_time = f[i][1],
                                  !.end_time = f[i][1] + f[i][2]] : i \in RowIds}] :
        f \in [RowIds -> {<<0, 1>>, <<0, 2>>, <<1, 1>>}]}
    \cup
    {[BaseCatalog EXCEPT
         !.syllable = {[BaseSyllable(i) EXCEPT !.recording_id = f[i]] : i \in RowIds},
         !.recording = {[BaseRecording(i) EXCEPT
                            !.created_at = IF i \in ParentIds THEN g[i] ELSE 0] :
                        i \in RowIds}] :
        f \in [RowIds -> ParentIds], g \in [ParentIds -> Times]}
    \cup
    {[BaseCatalog EXCEPT !.embedding =
         {[BaseEmbedding(i) EXCEPT !.syllable_id = f[i][1],
                                   !.model_version = f[i][2]] : i \in RowIds}] :
        f \in [RowIds -> {<<1, "vae_v1">>, <<1, "vae_v2">>, <<2, "vae_v1">>}]}
    \cup
    {[BaseCatalog EXCEPT !.annotation =
         {[BaseAnnotation(i) EXCEPT !.syllable_id = f[i][1],
                                    !.value = f[i][2]] : i \in RowIds}] :
        f \in [RowIds -> {<<1, "call_A">>, <<1, "call_B">>, <<2, "call_A">>}]}
    \cup
    {[BaseCatalog EXCEPT !.annotation =
         {[BaseAnnotation(i) EXCEPT !.syllable_id = 1,
                                    !.annotation_type = f[i][1],
                                    !.key = f[i][2],
                                    !.created_at = f[i][3]] : i \in RowIds}] :
        f \in [RowIds -> {<<"label", "call_type", 0>>, <<"label", "quality", 1>>,
                          <<"note", "call_type", 0>>}]}

\* The orders in which a table can hand its rows to a scan.
Perms(S) ==
    {f \in [1..Cardinality(S) -> S] : \A i, j \in 1..Cardinality(S) : f[i] = f[j] => i = j}

\* The rows of a table by ascending id.
ById(S) == CHOOSE f \in Perms(S) : \A i \in 1..Len(f) : f[i].id = i

\* The rows of every table in the order a scan meets them: the tables of a
\* set in any order, the others by id.
Storages(cat, tables) ==
    LET orders(t) == IF t \in tables THEN Perms(cat[t]) ELSE {ById(cat[t])} IN
    {[recording |-> a, syllable |-> b, embedding |-> c, annotation |-> d] :
        a \in orders("recording"), b \in orders("syllable"),
        c \in orders("embedding"), d \in orders("annotation")}

\* select(Entity): a query without joins, criteria or ordering.
select(t) == [table |-> t, froms |-> <<>>, wheres |-> <<>>, order_by |-> <<>>]

\* query.join(Entity)
join(q, t) == [q EXCEPT !.froms = Append(@, t)]

\* query.where(criterion)
where(q, w) == [q EXCEPT !.wheres = Append(@, w)]

\* query.order_by(columns)
order_by(q, cols) == [q EXCEPT !.order_by = @ \o cols]

\* Criteria: expr BETWEEN lo AND hi, expr >= lo, column = text.
between(t, e, lo, hi) ==
    [on |-> t, expr |-> e, op |-> "between", lo |-> lo, hi |-> hi, text |-> ""]

at_least(t, e, lo) ==
    [on |-> t, expr |-> e, op |-> ">=", lo |-> lo, hi |-> None, text |-> ""]

equals_text(t, e, x) ==
    [on |-> t, expr |-> e, op |-> "=", lo |-> 0, hi |-> 0, text |-> x]

equals(t, e, n) ==
    [on |-> t, expr |-> e, op |-> "==", lo |-> n, hi |-> n, text |-> ""]

\* Syllable.end_time - Syllable.start_time
duration_expr == "end_time - start_time"

\* The value of an expression on a row.
ValueOf(row, e) ==
    IF e = duration_expr THEN row.end_time - row.start_time ELSE row[e]

\* Whether the engine keeps a row for a criterion: a comparison with NULL is
\* NULL, and the row is dropped.
Holds(w, row) ==
    LET v == ValueOf(row, w.expr) IN
    CASE w.op = "between" -> w.lo # None /\ w.hi # None /\ w.lo <= v /\ v <= w.hi
      [] w.op = ">=" -> w.lo # None /\ v >= w.lo
      [] w.op = "==" -> v = w.lo
      [] w.op = "=" -> v = w.text

\* The columns that hold text, and the order of their values.
TextColumns == {"model_version", "annotation_type", "key", "value"}

Collate ==
    [x \in {"vae_v1", "vae_v2", "label", "note", "call_type", "quality",
            "call_A", "call_B"} |->
        CASE x \in {"vae_v1", "label", "call_type", "call_A"} -> 1
          [] OTHER -> 2]

\* The sort key of a row for the columns of an ORDER BY.
KeyOf(row, cols) ==
    [i \in 1..Len(cols) |->
        IF cols[i] \in TextColumns THEN Collate[row[cols[i]]] ELSE row[cols[i]]]

\* Whether key k1 sorts strictly before key k2.
KeyLess(k1, k2) ==
    \E i \in 1..Len(k1) : k1[i] < k2[i] /\ \A j \in 1..(i - 1) : k1[j] = k2[j]

\* ORDER BY: rows of equal key stay in the order the scan met them.
RECURSIVE sorted(_, _)
sorted(rows, cols) ==
    IF rows = <<>> THEN <<>>
    ELSE LET x == Head(rows)
             rest == sorted(Tail(rows), cols)
             n == Cardinality({i \in 1..Len(rest) :
                                  KeyLess(KeyOf(rest[i], cols), KeyOf(x, cols))})
         IN  SubSeq(rest, 1, n) \o <<x>> \o SubSeq(rest, n + 1, Len(rest))

RECURSIVE Concat(_)
Concat(ss) == IF ss = <<>> THEN <<>> ELSE Head(ss) \o Concat(Tail(ss))

\* The ON clause of a join of the syllable table with table t.
JoinOn(t, y, r) ==
    IF t = "recording" THEN r.id = y.recording_id ELSE r.syllable_id = y.id

\* A row of the selected table before any join.
Alone(t, row) == [x \in Tables |-> IF x = t THEN row ELSE [id |-> 0]]

\* The joined rows, each a row of every table of the query.
RECURSIVE Joined(_, _, _, _)
Joined(main, froms, partial, st) ==
    IF froms = <<>> THEN partial
    ELSE LET t == Head(froms)
             step == Concat([i \in 1..Len(partial) |->
                        LET m == SelectSeq(st[t],
                                    LAMBDA r : JoinOn(t, partial[i][main], r))
                        IN  [k \in 1..Len(m) |-> [partial[i] EXCEPT ![t] = m[k]]]])
         IN  Joined(main, Tail(froms), step, st)

\* session.execute(query).scalars().all(): the rows of the selected entity,
\* one for each joined row that meets every criterion, in the order of the
\* ORDER BY, or of the scan when there is none. A table joined twice under
\* one name is rejected by the engine.
session_execute(q, st) ==
    LET all == Joined(q.table, q.froms,
                      [i \in 1..Len(st[q.table]) |-> Alone(q.table, st[q.table][i])], st)
        kept == SelectSeq(all, LAMBDA j :
                    \A i \in 1..Len(q.wheres) : Holds(q.wheres[i], j[q.wheres[i].on]))
        rows == [i \in 1..Len(kept) |-> kept[i][q.table]]
    IN  IF \E i, j \in 1..Len(q.froms) : i # j /\ q.froms[i] = q.froms[j]
        THEN Raised("OperationalError")
        ELSE Returned(sorted(rows, q.order_by))

\* RecordingRepository.filter_by_temporal_range(start_date, end_date)
RecordingRepository_filter_by_temporal_range(start_date, end_date, st) ==
    session_execute(
        order_by(where(select("recording"),
                       between("recording", "created_at", start_date, end_date)),
                 <<"created_at", "id">>), st)

\* SyllableRepository.get_by_recording(recording_id)
SyllableRepository_get_by_recording(recording_id, st) ==
    session_execute(
        order_by(where(select("syllable"),
                       equals("syllable", "recording_id", recording_id)),
                 <<"start_time", "id">>), st)

\* SyllableRepository.filter_by_duration(min_duration, max_duration)
SyllableRepository_filter_by_duration(min_duration, max_duration, st) ==
    session_execute(
        order_by(where(select("syllable"),
                       between("syllable", duration_expr, min_duration, max_duration)),
                 <<"start_time", "id">>), st)

\* Faulty read: embeddings of a model ordered by syllable only.
filter_by_model_tag_without_id(model_version, st) ==
    session_execute(
        order_by(where(select("embedding"),
                       equals_text("embedding", "model_version", model_version)),
                 <<"syllable_id">>), st)

\* EmbeddingRepository.filter_by_model_tag(model_version)
EmbeddingRepository_filter_by_model_tag(model_version, st) ==
    session_execute(
        order_by(where(select("embedding"),
                       equals_text("embedding", "model_version", model_version)),
                 <<"syllable_id", "id">>), st)

\* EmbeddingRepository.get_by_syllable(syllable_id)
EmbeddingRepository_get_by_syllable(syllable_id, st) ==
    session_execute(
        order_by(where(select("embedding"),
                       equals("embedding", "syllable_id", syllable_id)),
                 <<"model_version", "id">>), st)

\* AnnotationRepository.filter_by_type_and_key(annotation_type, key)
AnnotationRepository_filter_by_type_and_key(annotation_type, key, st) ==
    session_execute(
        order_by(where(where(select("annotation"),
                             equals_text("annotation", "annotation_type", annotation_type)),
                       equals_text("annotation", "key", key)),
                 <<"created_at", "id">>), st)

\* AnnotationRepository.get_by_syllable(syllable_id)
AnnotationRepository_get_by_syllable(syllable_id, st) ==
    session_execute(
        order_by(where(select("annotation"),
                       equals("annotation", "syllable_id", syllable_id)),
                 <<"annotation_type", "key", "id">>), st)

\* QueryDSL.__init__: the base query over Syllable and no join made; `calls`
\* keeps the filter calls made on the builder.
QueryDSL == [query |-> select("syllable"), joins |-> {}, calls |-> <<>>]

\* QueryDSL.filter_by_duration(min_duration, max_duration=None)
filter_by_duration(self, min_duration, max_duration) ==
    [self EXCEPT !.query =
        IF max_duration # None
        THEN where(@, between("syllable", duration_expr, min_duration, max_duration))
        ELSE where(@, at_least("syllable", duration_expr, min_duration))]

\* Faulty join: made by every filter call, joined before or not.
joined_always(self, t) == [self EXCEPT !.query = join(@, t), !.joins = @ \cup {t}]

\* The join a filter makes when its entity has not been joined yet.
joined_once(self, t) ==
    IF t \notin self.joins
    THEN [self EXCEPT !.query = join(@, t), !.joins = @ \cup {t}]
    ELSE self

\* QueryDSL.filter_by_label(annotation_type, label_value)
filter_by_label(self, annotation_type, label_value) ==
    [joined_once(self, "annotation") EXCEPT !.query =
        where(where(@, equals_text("annotation", "annotation_type", annotation_type)),
              equals_text("annotation", "value", label_value))]

\* QueryDSL.filter_by_model_tag(model_version)
filter_by_model_tag(self, model_version) ==
    [joined_once(self, "embedding") EXCEPT !.query =
        where(@, equals_text("embedding", "model_version", model_version))]

\* QueryDSL.filter_by_date_range(start_date, end_date)
filter_by_date_range(self, start_date, end_date) ==
    [joined_once(self, "recording") EXCEPT !.query =
        where(@, between("recording", "created_at", start_date, end_date))]

\* Faulty execute: the query is run as the filters left it.
execute_unordered(self, st) == session_execute(self.query, st)

\* QueryDSL.execute(): the ordering is added to a copy of the query.
execute(self, st) ==
    LET final_query == order_by(self.query, <<"start_time", "id">>) IN
    session_execute(final_query, st)

\* A filter call, as it is kept in `calls`.
FilterCall(method, a, b, text) == [method |-> method, a |-> a, b |-> b, text |-> text]

\* The filter calls made on a QueryDSL.
FilterCalls ==
    {FilterCall("filter_by_duration", a[1], a[2], "") :
        a \in {<<2, None>>, <<1, 1>>}}
    \cup {FilterCall("filter_by_label", 0, 0, v) : v \in Labels}
    \cup {FilterCall("filter_by_model_tag", 0, 0, v) : v \in ModelTags}
    \cup {FilterCall("filter_by_date_range", 0, 0, "")}

\* The builder a filter call returns.
Filtered(self, c) ==
    LET next ==
        CASE c.method = "filter_by_duration" -> filter_by_duration(self, c.a, c.b)
          [] c.method = "filter_by_label" -> filter_by_label(self, "label", c.text)
          [] c.method = "filter_by_model_tag" -> filter_by_model_tag(self, c.text)
          [] c.method = "filter_by_date_range" -> filter_by_date_range(self, c.a, c.b)
    IN  [next EXCEPT !.calls = Append(@, c)]

\* What is kept of a query: whether it repeats the query before it, the
\* method, its arguments and what it returned.
Answer(again, op, args, out) == [again |-> again, op |-> op, args |-> args, out |-> out]

\* QueryDSL(session)
QueryDSL_init ==
    /\ dsl = NoDSL
    /\ dsl' = QueryDSL
    /\ answer' = NoCall
    /\ UNCHANGED <<sessVars, fs, files, idx, batch, disk, stage, discovered,
                   checksums, summary, stagesRun, ret, catalog, cli>>

\* A filter method is called on the builder and returns it.
Chained(c) ==
    /\ dsl # NoDSL
    /\ Len(dsl.calls) < MaxChain
    /\ dsl' = Filtered(dsl, c)
    /\ answer' = NoCall
    /\ UNCHANGED <<sessVars, fs, files, idx, batch, disk, stage, discovered,
                   checksums, summary, stagesRun, ret, catalog, cli>>

QueryDSL_filter_by_duration ==
    \E c \in FilterCalls : c.method = "filter_by_duration" /\ Chained(c)

QueryDSL_filter_by_label ==
    \E c \in FilterCalls : c.method = "filter_by_label" /\ Chained(c)

QueryDSL_filter_by_model_tag ==
    \E c \in FilterCalls : c.method = "filter_by_model_tag" /\ Chained(c)

QueryDSL_filter_by_date_range ==
    \E c \in FilterCalls : c.method = "filter_by_date_range" /\ Chained(c)

\* QueryDSL.execute()
QueryDSL_execute ==
    /\ dsl # NoDSL
    /\ \E st \in Storages(catalog, {"syllable"}) :
           answer' = Answer(answer # NoCall, "execute", dsl.calls, execute(dsl, st))
    /\ UNCHANGED <<sessVars, fs, files, idx, batch, disk, stage, discovered,
                   checksums, summary, stagesRun, ret, catalog, dsl, cli>>

\* What a repository read leaves as it is.
readFrame == <<sessVars, fs, files, idx, batch, disk, stage, discovered, checksums,
               summary, stagesRun, ret, catalog, dsl, cli>>

\* The repository reads, each made before any QueryDSL is built.
RecordingRepository_filter_by_temporal_range_call ==
    /\ dsl = NoDSL
    /\ \E a \in Times, b \in Times :
           /\ \/ answer = NoCall
              \/ answer.op = "filter_by_temporal_range" /\ answer.args = <<a, b>>
           /\ \E st \in Storages(catalog, {"recording"}) :
                  answer' = Answer(answer # NoCall, "filter_by_temporal_range", <<a, b>>,
                            RecordingRepository_filter_by_temporal_range(a, b, st))
    /\ UNCHANGED readFrame

SyllableRepository_get_by_recording_call ==
    /\ dsl = NoDSL
    /\ \E r \in RowIds :
           /\ \/ answer = NoCall
              \/ answer.op = "get_by_recording" /\ answer.args = <<r>>
           /\ \E st \in Storages(catalog, {"syllable"}) :
                  answer' = Answer(answer # NoCall, "get_by_recording", <<r>>,
                            SyllableRepository_get_by_recording(r, st))
    /\ UNCHANGED readFrame

SyllableRepository_filter_by_duration_call ==
    /\ dsl = NoDSL
    /\ \E a \in {0} \cup Durations, b \in {None} \cup Durations :
           /\ \/ answer = NoCall
              \/ answer.op = "filter_by_duration" /\ answer.args = <<a, b>>
           /\ \E st \in Storages(catalog, {"syllable"}) :
                  answer' = Answer(answer # NoCall, "filter_by_duration", <<a, b>>,
                            SyllableRepository_filter_by_duration(a, b, st))
    /\ UNCHANGED readFrame

EmbeddingRepository_filter_by_model_tag_call ==
    /\ dsl = NoDSL
    /\ \E v \in ModelTags :
           /\ \/ answer = NoCall
              \/ answer.op = "filter_by_model_tag" /\ answer.args = <<v>>
           /\ \E st \in Storages(catalog, {"embedding"}) :
                  answer' = Answer(answer # NoCall, "filter_by_model_tag", <<v>>,
                            EmbeddingRepository_filter_by_model_tag(v, st))
    /\ UNCHANGED readFrame

EmbeddingRepository_get_by_syllable_call ==
    /\ dsl = NoDSL
    /\ \E y \in RowIds :
           /\ \/ answer = NoCall
              \/ answer.op = "Embedding.get_by_syllable" /\ answer.args = <<y>>
           /\ \E st \in Storages(catalog, {"embedding"}) :
                  answer' = Answer(answer # NoCall, "Embedding.get_by_syllable", <<y>>,
                            EmbeddingRepository_get_by_syllable(y, st))
    /\ UNCHANGED readFrame

AnnotationRepository_filter_by_type_and_key_call ==
    /\ dsl = NoDSL
    /\ \E t \in {"label", "note"}, k \in {"call_type", "quality"} :
           /\ \/ answer = NoCall
              \/ answer.op = "filter_by_type_and_key" /\ answer.args = <<t, k>>
           /\ \E st \in Storages(catalog, {"annotation"}) :
                  answer' = Answer(answer # NoCall, "filter_by_type_and_key", <<t, k>>,
                            AnnotationRepository_filter_by_type_and_key(t, k, st))
    /\ UNCHANGED readFrame

AnnotationRepository_get_by_syllable_call ==
    /\ dsl = NoDSL
    /\ \E y \in RowIds :
           /\ \/ answer = NoCall
              \/ answer.op = "Annotation.get_by_syllable" /\ answer.args = <<y>>
           /\ \E st \in Storages(catalog, {"annotation"}) :
                  answer' = Answer(answer # NoCall, "Annotation.get_by_syllable", <<y>>,
                            AnnotationRepository_get_by_syllable(y, st))
    /\ UNCHANGED readFrame

\* Queries on a catalog that nothing modifies.
InitQuery ==
    /\ InitDB
    /\ db = EmptyDB
    /\ fs = NoFiles
    /\ disk = NoDisk
    /\ RunIdle
    /\ CliIdle
    /\ catalog \in Catalogs
    /\ dsl = NoDSL
    /\ answer = NoCall

NextQuery ==
    \/ RecordingRepository_filter_by_temporal_range_call
    \/ SyllableRepository_get_by_recording_call
    \/ SyllableRepository_filter_by_duration_call
    \/ EmbeddingRepository_filter_by_model_tag_call
    \/ EmbeddingRepository_get_by_syllable_call
    \/ AnnotationRepository_filter_by_type_and_key_call
    \/ AnnotationRepository_get_by_syllable_call
    \/ QueryDSL_init
    \/ QueryDSL_filter_by_duration
    \/ QueryDSL_filter_by_label
    \/ QueryDSL_filter_by_model_tag
    \/ QueryDSL_filter_by_date_range
    \/ QueryDSL_execute

SpecQuery == InitQuery /\ [][NextQuery]_vars

\* --------------------------------------------------- command-line entry point
\* A URL is kept as the sequence of its characters.
startswith(s, prefix) == Len(s) >= Len(prefix) /\ SubSeq(s, 1, Len(prefix)) = prefix

\* The position of the first character c of s, 0 when there is none.
Find(s, c) ==
    IF \E i \in 1..Len(s) : s[i] = c
    THEN CHOOSE i \in 1..Len(s) : s[i] = c /\ \A j \in 1..(i - 1) : s[j] # c
    ELSE 0

\* The characters of s before the first c, all of s when there is none.
Before(s, c) == IF Find(s, c) = 0 THEN s ELSE SubSeq(s, 1, Find(s, c) - 1)

sqlite == <<"s", "q", "l", "i", "t", "e">>

postgresql == <<"p", "o", "s", "t", "g", "r", "e", "s", "q", "l">>

\* The database URLs a configuration is tried with:
\* sqlite:///a, sqlite:a, postgresql://h, postgresql+p://h, postgresqlx://h,
\* postgres://h, mysql://h, the empty string, SQLITE:///a and " sqlite:///a".
Urls ==
    {sqlite \o <<":", "/", "/", "/", "a">>,
     sqlite \o <<":", "a">>,
     postgresql \o <<":", "/", "/", "h">>,
     postgresql \o <<"+", "p", ":", "/", "/", "h">>,
     postgresql \o <<"x", ":", "/", "/", "h">>,
     <<"p", "o", "s", "t", "g", "r", "e", "s", ":", "/", "/", "h">>,
     <<"m", "y", "s", "q", "l", ":", "/", "/", "h">>,
     <<>>,
     <<"S", "Q", "L", "I", "T", "E", ":", "/", "/", "/", "a">>,
     <<" ">> \o sqlite \o <<":", "/", "/", "/", "a">>}

\* sqlalchemy.create_engine(url): the URL has to read name://..., and the
\* name, up to a +driver, has to be that of a dialect.
create_engine(url) ==
    LET name == Before(url, ":")
        rest == SubSeq(url, Len(name) + 1, Len(url))
    IN  IF name = <<>> \/ ~startswith(rest, <<":", "/", "/">>)
        THEN Raised("ArgumentError")
        ELSE IF Before(name, "+") \notin {sqlite, postgresql}
        THEN Raised("NoSuchModuleError")
        ELSE Returned(Before(name, "+"))

\* What a call of create_engine_from_url comes to: the library calls it
\* made, in order, and the engine it returned or the error it raised.
EngineCall(calls, out) == [calls |-> calls, out |-> out]

\* Faulty engine creation: a URL of neither prefix is taken for sqlite.
create_engine_from_any_url(database_url) ==
    EngineCall(<<"create_engine", "connect", "PRAGMA foreign_keys=ON", "create_all">>,
               Returned("sqlite"))

\* create_engine_from_url(database_url), lines 40-53.
create_engine_from_url_result(database_url) ==
    LET made == create_engine(database_url) IN
    IF startswith(database_url, sqlite \o <<":">>)
    THEN IF made.ok
         THEN EngineCall(<<"create_engine", "connect", "PRAGMA foreign_keys=ON",
                           "create_all">>, Returned("sqlite"))
         ELSE EngineCall(<<"create_engine">>, made)
    ELSE IF startswith(database_url, postgresql)
    THEN IF made.ok
         THEN EngineCall(<<"create_engine", "create_all">>, Returned("postgresql"))
         ELSE EngineCall(<<"create_engine">>, made)
    ELSE EngineCall(<<>>, Raised("RuntimeError"))

\* Values of a configuration document: a YAML scalar or list, by its type and
\* its text; a URL also by its characters.
Value(type, text) == [type |-> type, text |-> text, chars |-> <<>>]

UrlValue(url) == [type |-> "str", text |-> "url", chars |-> url]

\* The key is not in the document.
Unset == Value("unset", "")

\* The values a field is tried with: right ones, and wrong ones of every kind.
TrialValues ==
    {Value("bool", "true"), Value("str", "yes"), Value("str", "not_a_boolean"),
     Value("int", "1"), Value("int", "123"), Value("list", ""),
     Value("str", "data"), Unset}

\* pydantic's validation of a bool field: a bool, or one of the numbers and
\* words it reads as a bool.
bool_field(v) ==
    \/ v.type \in {"bool", "unset"}
    \/ v.type = "int" /\ v.text \in {"0", "1"}
    \/ v.type = "str" /\ v.text \in {"0", "off", "f", "false", "n", "no",
                                     "1", "on", "t", "true", "y", "yes"}

\* pydantic's validation of a str field.
str_field(v) == v.type \in {"str", "unset"}

\* The fields of the three sections, with their types.
BoolFields == {<<"database", "enabled">>, <<"database", "echo">>}

StrFields ==
    {<<"database", "url">>, <<"data_roots", "audio_dir">>,
     <<"data_roots", "features_dir">>, <<"ingest", "scan_glob_audio">>,
     <<"ingest", "scan_glob_h5">>, <<"ingest", "checksum">>}

\* DatabaseConfig.url when the document sets none: sqlite:///./ava.db.
DefaultUrl == sqlite \o <<":", "/", "/", "/", ".", "/", "a">>

\* A document that sets every field to a value of its type.
BaseConfig ==
    [database |-> [enabled |-> Value("bool", "true"),
                   url |-> UrlValue(sqlite \o <<":", "/", "/", "/", "a">>),
                   echo |-> Value("bool", "true")],
     data_roots |-> [audio_dir |-> Value("str", "data"),
                     features_dir |-> Value("str", "data")],
     ingest |-> [scan_glob_audio |-> Value("str", "data"),
                 scan_glob_h5 |-> Value("str", "data"),
                 checksum |-> Value("str", "data")]]

\* The invalid_config of test_config_validation_failure.
TestInvalidConfig ==
    [database |-> [enabled |-> Value("str", "not_a_boolean"), url |-> Unset,
                   echo |-> Unset],
     data_roots |-> [audio_dir |-> Value("int", "123"), features_dir |-> Unset],
     ingest |-> [scan_glob_audio |-> Unset, scan_glob_h5 |-> Unset,
                 checksum |-> Value("list", "")]]

\* The documents a command is tried with: one field of the base document
\* changed, or its URL, and the test's document.
Configs ==
    {[BaseConfig EXCEPT ![f[1]][f[2]] = v] :
        f \in (BoolFields \cup StrFields) \ {<<"database", "url">>},
        v \in TrialValues}
    \cup {[BaseConfig EXCEPT !.database.url = v] :
             v \in {UrlValue(u) : u \in Urls} \cup {Value("int", "123"), Unset}}
    \cup {TestInvalidConfig}

\* AVAConfig.model_validate(config_dict): every field has to pass. Of the
\* validated configuration the URL is kept, which is all the commands of the
\* model read of it.
model_validate(config_dict) ==
    IF /\ \A f \in BoolFields : bool_field(config_dict[f[1]][f[2]])
       /\ \A f \in StrFields : str_field(config_dict[f[1]][f[2]])
    THEN Returned([database |-> [url |-> IF config_dict.database.url = Unset
                                         THEN DefaultUrl
                                         ELSE config_dict.database.url.chars]])
    ELSE Raised("ValidationError")

\* The configuration file a command is given: no such path, a directory, or
\* a file whose text is no YAML, an empty document, or a mapping.
ConfigFile(kind, yaml, data) == [kind |-> kind, yaml |-> yaml, data |-> data]

ConfigFiles ==
    {ConfigFile("missing", "", BaseConfig), ConfigFile("dir", "", BaseConfig),
     ConfigFile("file", "invalid", BaseConfig), ConfigFile("file", "empty", BaseConfig)}
    \cup {ConfigFile("file", "mapping", c) : c \in Configs}

ConfigPath == "config.yaml"

\* One layer of a message: its text and the paths it names. A message is
\* the sequence of its layers, the outermost first.
Layer(text, paths) == [text |-> text, paths |-> paths]

\* f"{text}: {e}"
Wrapped(text, e) == <<Layer(text, {})>> \o e

\* What the steps of a command come to: the calls made, and the validated
\* configuration or engine returned, or the message of the error raised.
Outcome(calls, out) == [calls |-> calls, out |-> out]

\* load_config(config_path)
load_config(file) ==
    IF file.kind = "missing"
    THEN Raised(<<Layer("Configuration file not found", {ConfigPath})>>)
    ELSE IF file.kind # "file"
    THEN Raised(<<Layer("Configuration path is not a file", {ConfigPath})>>)
    ELSE IF file.yaml = "invalid"
    THEN Raised(<<Layer("Configuration loading failed", {}), Layer("YAMLError", {})>>)
    ELSE Returned(file)

\* AVAConfig.model_validate(load_config(args.config_path))
Configured(file) ==
    LET loaded == load_config(file) IN
    IF ~loaded.ok THEN Outcome(<<"load_config">>, loaded)
    ELSE LET valid == IF file.yaml = "empty" THEN Raised("ValidationError")
                      ELSE model_validate(file.data)
         IN  Outcome(<<"load_config", "model_validate">>,
                     IF valid.ok THEN valid
                     ELSE Raised(<<Layer(valid.error, {})>>))

\* The configuration is validated and the engine created from its URL.
Connected(file) ==
    LET c == Configured(file) IN
    IF ~c.out.ok THEN c
    ELSE LET e == create_engine_from_url_result(c.out.value.database.url) IN
         Outcome(c.calls \o <<"create_engine_from_url">> \o e.calls,
                 IF e.out.ok THEN e.out
                 ELSE Raised(<<Layer(e.out.error, {})>>))

\* What create_engine_from_url does to the engine when a command calls it.
EngineOf(o) ==
    IF o.out.ok /\ o.out.value = "sqlite"
    THEN SqliteEngine
    ELSE /\ engine' = IF o.out.ok THEN o.out.value ELSE engine
         /\ db' = IF o.out.ok THEN create_all(db) ELSE db
         /\ UNCHANGED <<pool, connPragma, seq, txn, writer, pc, conn, tstate, exc,
                        bodyExc, nops, callVars, stmtFailed, flushed, dupPath>>

\* The commands and the arguments they are tried with.
Commands == {"", "init", "ingest", "validate", "status"}

\* main lines 237-242: the command returned, or raised the error of message
\* e, which is printed before sys.exit(1).
Finished(c, calls, e) ==
    [c EXCEPT !.pc = "exited", !.calls = @ \o calls,
              !.exit = IF e = <<>> THEN 0 ELSE 1, !.out = e]

\* What the command-line steps leave as it is.
cliFrame == <<fs, files, idx, batch, disk, stage, discovered, checksums, summary,
              stagesRun, ret, queryVars>>

\* main lines 231-238: the arguments are parsed and the command dispatched;
\* without a command the help is printed and the exit status is 1. ingest
\* and status go on with the units of work of sqlite, so they are not tried
\* with a URL that makes another engine.
main ==
    /\ cli = NoCli
    /\ \E command \in Commands, file \in ConfigFiles, recording_id \in {0, 1} :
        /\ recording_id = 1 => command = "status"
        /\ (command \in {"ingest", "status"} /\ Connected(file).out.ok)
               => Connected(file).out.value = "sqlite"
        /\ command = "" => file = ConfigFile("file", "mapping", BaseConfig)
        /\ cli' = [pc |-> IF command = "" THEN "exited" ELSE "dispatched",
                   command |-> command, file |-> file, recording_id |-> recording_id,
                   calls |-> <<>>, exit |-> IF command = "" THEN 1 ELSE 0,
                   out |-> <<>>]
    /\ UNCHANGED <<sessVars, cliFrame>>

\* validate_config(args)
validate_config ==
    /\ cli # NoCli
    /\ cli.pc = "dispatched"
    /\ cli.command = "validate"
    /\ LET o == Configured(cli.file) IN
       cli' = Finished(cli, o.calls,
                       IF o.out.ok THEN <<>> ELSE Wrapped("Validation failed", o.out.error))
    /\ UNCHANGED <<sessVars, cliFrame>>

\* init_database(args)
init_database ==
    /\ cli # NoCli
    /\ cli.pc = "dispatched"
    /\ cli.command = "init"
    /\ LET o == Connected(cli.file) IN
       /\ EngineOf(o)
       /\ cli' = Finished(cli, o.calls,
                          IF o.out.ok THEN <<>>
                          ELSE Wrapped("Database initialization failed", o.out.error))
    /\ UNCHANGED cliFrame

\* ingest_metadata(args) lines 128-134: the configuration is validated, the
\* engine created and the indexer constructed.
ingest_metadata ==
    /\ cli # NoCli
    /\ cli.pc = "dispatched"
    /\ cli.command = "ingest"
    /\ LET o == Connected(cli.file) IN
       /\ EngineOf(o)
       /\ cli' = IF o.out.ok
                 THEN [cli EXCEPT !.pc = "indexing",
                                  !.calls = @ \o o.calls \o <<"FilesystemIndexer">>]
                 ELSE Finished(cli, o.calls, Wrapped("Ingestion failed", o.out.error))
    /\ UNCHANGED cliFrame

\* ingest_metadata line 135: indexer.run_full_indexing() starts.
ingest_metadata_run ==
    /\ cli # NoCli
    /\ cli.pc = "indexing"
    /\ run_full_indexing_scan

\* The message of the error a failed run raised: the error of the stage
\* that failed, or of populate_database, which names the file it was at
\* when the error came from inside its loop.
RunError ==
    LET last == stagesRun[Len(stagesRun)]
        of(r) == <<Layer(r.error.msg, PathsOf(r.error.paths))>>
                 \o (IF r.error.cause = "" THEN <<>> ELSE <<Layer(r.error.cause, {})>>)
    IN  CASE last = "validate" -> of(validate_integrity(discovered, disk))
          [] last = "checksum" -> of(compute_checksums(discovered, disk))
          [] last = "summary" -> of(total_syllables(discovered, disk))
          [] last = "populate" ->
                IF exc[RunSession] = "RuntimeError"
                THEN <<Layer("Database population failed for", {File(RunSession)}),
                       Layer(IF stmtFailed[RunSession] THEN "create"
                             ELSE "extract_hdf5_metadata", {})>>
                ELSE <<Layer(exc[RunSession], {})>>

\* ingest_metadata lines 135-140: run_full_indexing has returned its summary
\* or raised; the counts of the summary are printed.
ingest_metadata_end ==
    /\ cli # NoCli
    /\ cli.pc = "indexing"
    /\ stage \in {"completed", "failed"}
    /\ cli' = Finished(cli, <<"run_full_indexing">>,
                 IF stage = "failed"
                 THEN Wrapped("Ingestion failed",
                              Wrapped("Indexing workflow failed", RunError))
                 ELSE IF "total_syllables" \notin DOMAIN summary
                 THEN Wrapped("Ingestion failed", <<Layer("KeyError", {})>>)
                 ELSE <<>>)
    /\ UNCHANGED <<sessVars, cliFrame>>

\* show_status(args) lines 156-159: the configuration is validated and the
\* engine created.
show_status ==
    /\ cli # NoCli
    /\ cli.pc = "dispatched"
    /\ cli.command = "status"
    /\ LET o == Connected(cli.file) IN
       /\ EngineOf(o)
       /\ cli' = IF o.out.ok
                 THEN [cli EXCEPT !.pc = "status", !.calls = @ \o o.calls]
                 ELSE Finished(cli, o.calls, Wrapped("Status check failed", o.out.error))
    /\ UNCHANGED cliFrame

\* show_status line 160: with get_session(engine) as session.
show_status_session ==
    /\ cli # NoCli
    /\ cli.pc = "status"
    /\ Enter(RunSession, "s_query")
    /\ cli' = [cli EXCEPT !.pc = "queries", !.calls = Append(@, "get_session")]
    /\ UNCHANGED cliFrame

\* show_status lines 161-166: the syllables of the recording asked for are
\* read, then those of the duration range.
show_status_queries ==
    /\ cli # NoCli
    /\ cli.pc = "queries"
    /\ pc[RunSession] = "s_query"
    /\ Execute(RunSession, FALSE, View(RunSession), "syllable", 0, "-")
    /\ pc' = [pc EXCEPT ![RunSession] = "body"]
    /\ cli' = [cli EXCEPT !.pc = "queried",
                          !.calls = @ \o (IF cli.recording_id # 0
                                          THEN <<"get_by_recording">> ELSE <<>>)
                                      \o <<"filter_by_duration">>]
    /\ UNCHANGED <<engine, db, exc, bodyExc, nops, callVars, cliFrame>>

\* show_status lines 167-170: the with block has ended.
show_status_end ==
    /\ cli # NoCli
    /\ cli.pc = "queried"
    /\ pc[RunSession] \in {"returned", "raised"}
    /\ cli' = Finished(cli, <<>>,
                 IF pc[RunSession] = "raised"
                 THEN Wrapped("Status check failed", <<Layer(exc[RunSession], {})>>)
                 ELSE <<>>)
    /\ UNCHANGED <<sessVars, cliFrame>>

\* The directories the commands are run on.
CliDisks ==
    {[p \in CallPaths |-> IF p = "a.h5" THEN a ELSE IF p = "b.h5" THEN b ELSE Missing] :
        a \in {Missing, Container(1, 1), Entry("file", TRUE, FALSE, {}, 0, 0, <<0>>)},
        b \in {Missing, Container(1, 1)}}

InitCli ==
    /\ InitDB
    /\ disk \in CliDisks
    /\ fs = FsOf(disk)
    /\ RunIdle
    /\ QueryIdle
    /\ CliIdle

NextCli ==
    \/ main
    \/ validate_config
    \/ init_database
    \/ ingest_metadata
    \/ ingest_metadata_run
    \/ run_full_indexing_validate
    \/ run_full_indexing_checksum
    \/ run_full_indexing_populate
    \/ populate_database_get_by_path
    \/ populate_database_create
    \/ populate_database_bulk_create
    \/ get_session_commit
    \/ get_session_except
    \/ get_session_finally
    \/ run_full_indexing_summary
    \/ run_full_indexing_except
    \/ file_removed
    \/ ingest_metadata_end
    \/ show_status
    \/ show_status_session
    \/ show_status_queries
    \/ show_status_end

SpecCli == InitCli /\ [][NextCli]_vars

\* ------------------------------------------ the rows populate_database builds
\* The onsets, or the offsets, of a container: up to MaxSegs times.
TimeLists == UNION {[1..n -> Times] : n \in 0..MaxSegs}

\* zip(a, b): the pairs, up to the end of the shorter list.
zip(a, b) ==
    [i \in 1..(IF Len(a) <= Len(b) THEN Len(a) ELSE Len(b)) |-> <<a[i], b[i]>>]

\* float(x), of a number that tolist() returned.
float(x) == x

\* populate_database lines 159-168: the syllable_data of the pairs of one file.
syllable_data(recording_id, hdf5_path, metadata) ==
    LET pairs == zip(metadata.onsets, metadata.offsets) IN
    [i \in 1..Len(pairs) |->
        [recording_id |-> recording_id,
         spectrogram_path |-> hdf5_path,
         start_time |-> float(pairs[i][1]),
         end_time |-> float(pairs[i][2]),
         batch_index |-> i - 1]]

\* SyllableRepository.bulk_create: one Syllable of each element, with the
\* values it was given, and one flush, which hands out the ids.
bulk_create(d, syllables_data, base) ==
    [d EXCEPT !.syllable =
        @ \cup {[id |-> base + i,
                 recording_id |-> syllables_data[i].recording_id,
                 spectrogram_path |-> syllables_data[i].spectrogram_path,
                 start_time |-> syllables_data[i].start_time,
                 end_time |-> syllables_data[i].end_time,
                 batch_index |-> syllables_data[i].batch_index] :
                    i \in 1..Len(syllables_data)}]

\* populate_database([hdf5_path], checksums) from its first line to its
\* commit, with no other session at work, on a container that holds these
\* onsets and offsets: the recording is found or created, the rows are built
\* and inserted, and the transaction is committed.
populate_database_rows ==
    \E hdf5_path \in Paths, onsets \in TimeLists, offsets \in TimeLists :
        LET metadata == [onsets |-> onsets, offsets |-> offsets,
                         num_syllables |-> Len(onsets)]
            found == {r \in db.recording : r.path = hdf5_path}
            recording_id == IF found = {} THEN seq["recording"] + 1
                            ELSE (CHOOSE r \in found : TRUE).id
            created == IF found = {}
                       THEN InsertRecording(db, hdf5_path, checksums[hdf5_path],
                                            seq["recording"])
                       ELSE db
            syllables_batch == syllable_data(recording_id, hdf5_path, metadata)
        IN  /\ engine = "sqlite"
            /\ seq["syllable"] + Len(syllables_batch) <= MaxSeq
            /\ seq["recording"] < MaxSeq
            /\ db' = bulk_create(created, syllables_batch, seq["syllable"])
            /\ seq' = [seq EXCEPT !["recording"] = IF found = {} THEN @ + 1 ELSE @,
                                  !["syllable"] = @ + Len(syllables_batch)]
            /\ ret' = [op |-> "populate_database", paths |-> <<hdf5_path>>,
                       metadata |-> metadata]
            /\ UNCHANGED <<engine, pool, connPragma, txn, writer, pc, conn, tstate,
                           exc, bodyExc, nops, callVars, stmtFailed, flushed, dupPath,
                           fs, files, idx, batch, disk, stage, discovered, checksums,
                           summary, stagesRun, queryVars, cli>>

\* Indexing of containers whose onsets and offsets hold any times.
InitRows ==
    /\ InitDB
    /\ db = EmptyDB
    /\ fs = NoFiles
    /\ disk = NoDisk
    /\ NoRun
    /\ checksums = [p \in Paths |-> TestChecksum]
    /\ QueryIdle
    /\ CliIdle

NextRows ==
    \/ create_engine_from_url
    \/ populate_database_rows

SpecRows == InitRows /\ [][NextRows]_vars

\* ------------------------------------------------------------------ properties
\* The with statement of session s has ended.
Terminal(s) == pc[s] \in {"returned", "raised"}

\* No row session s flushed is among the committed rows.
FlushedAbsent(s) == \A f \in flushed[s] : f[2] \notin Ids(db[f[1]])

\* C1: a unit of work that raises ends with the same exception at the caller,
\* without any commit call, with the transaction discarded before the
\* exception leaves get_session (by session.rollback() for every Exception),
\* and with none of the rows it flushed among the committed rows.
C1_RollbackOnError ==
    \A s \in Sessions :
        bodyExc[s] # "none" =>
            /\ pc[s] # "returned"
            /\ commitCalls[s] = 0
            /\ exc[s] = bodyExc[s]
            /\ pc[s] = "raised" =>
                   /\ IsException(bodyExc[s]) => rollbackCalls[s] = 1
                   /\ tstate[s] = "none"
                   /\ writer # s
                   /\ FlushedAbsent(s)

\* A unit of work flushed a row, then a later statement of it failed and the
\* error reached the caller.
C1_Witness ==
    \E s \in Sessions :
        /\ pc[s] = "raised"
        /\ bodyExc[s] = "IntegrityError"
        /\ flushed[s] # {}

\* C2: a populate_database run one of whose files cannot be read, or one of
\* whose per-file steps or whose bulk insert fails, ends with an error at the
\* caller (RuntimeError for a per-file failure), after a rollback and without
\* a commit, and none of the recordings and syllables it flushed is committed.
C2_PopulateAllOrNothing ==
    \A s \in Sessions :
        files[s] # <<>> =>
            /\ pc[s] = "returned" =>
                   \A i \in 1..Len(files[s]) : fs[files[s][i]].ok
            /\ (Terminal(s) /\ \E i \in 1..Len(files[s]) : ~fs[files[s][i]].ok) =>
                   pc[s] = "raised" /\ exc[s] = "RuntimeError"
            /\ (Terminal(s) /\ stmtFailed[s]) => pc[s] = "raised"
            /\ pc[s] = "raised" =>
                   /\ commitCalls[s] = 0
                   /\ rollbackCalls[s] = 1
                   /\ exc[s] = bodyExc[s]
                   /\ FlushedAbsent(s)

\* A run created and flushed the recording of its first file, could not read
\* its second file, and has ended.
C2_Witness ==
    \E s \in Sessions :
        /\ pc[s] = "raised"
        /\ Len(files[s]) = 2
        /\ ~fs[files[s][2]].ok
        /\ \E f \in flushed[s] : f[1] = "recording"

\* Whether the parent that row r of child table t names is a row of d.
ParentIn(d, t, r) ==
    IF t = "syllable"
    THEN r.recording_id \in Ids(d.recording)
    ELSE r.syllable_id \in Ids(d.syllable)

\* C3: no flush succeeds in inserting a syllable, embedding or annotation
\* whose parent id names no row.
C3_OrphanInsertFails ==
    [][\A s \in Sessions :
          \A f \in flushed'[s] \ flushed[s] :
              f[1] # "recording" =>
                  \A r \in txn'[f[1]] : r.id = f[2] => ParentIn(txn', f[1], r)]_vars

\* C4: in every committed state each syllable references an existing
\* recording and each embedding and annotation an existing syllable.
C4_NoOrphanRows == ForeignKeysHold(db)

\* C5: a flush that deletes recordings or syllables leaves no syllable of a
\* deleted recording and no embedding or annotation of a deleted syllable.
C5_CascadeDelete ==
    [][(writer' # 0 /\ txn' # txn) =>
          LET before == IF writer = writer' THEN txn ELSE db
              goneR == Ids(before.recording) \ Ids(txn'.recording)
              goneS == Ids(before.syllable) \ Ids(txn'.syllable)
          IN  /\ \A y \in txn'.syllable : y.recording_id \notin goneR
              /\ \A e \in txn'.embedding \cup txn'.annotation :
                     e.syllable_id \notin goneS]_vars

C7_ForeignKeysOnEveryConnection ==
    \A c \in Conns : connPragma[c] \in {"unopened", "ON"}

\* C8: session.commit() is called once, when the with block has been left
\* normally; for a unit of work none of whose statements failed it raises
\* nothing and makes the rows the Session sees the committed ones.
C8_CommitOnSuccess ==
    /\ [](\A s \in Sessions :
             /\ pc[s] = "returned" =>
                    commitCalls[s] = 1 /\ rollbackCalls[s] = 0 /\ exc[s] = "none"
             /\ (pc[s] \in {"finally", "returned"} /\ bodyExc[s] = "none") =>
                    commitCalls[s] = 1)
    /\ [][\A s \in Sessions :
             commitCalls'[s] # commitCalls[s] =>
                 /\ commitCalls[s] = 0
                 /\ pc[s] \in {"body", "p_done"}
                 /\ ~stmtFailed[s] =>
                        /\ db' = View(s)
                        /\ pc'[s] = "finally"
                        /\ exc'[s] = "none"]_vars

\* A unit of work has returned and a row it flushed is committed.
C8_Witness ==
    \E s \in Sessions :
        /\ pc[s] = "returned"
        /\ \E f \in flushed[s] : f[2] \in Ids(db[f[1]])

\* C9: get_session calls session.close() exactly once, as its last step, on
\* every exit path; afterwards the Session holds no connection, no
\* transaction and no write lock.
C9_ClosedOnEveryExit ==
    \A s \in Sessions :
        /\ closeCalls[s] = IF Terminal(s) THEN 1 ELSE 0
        /\ Terminal(s) => conn[s] = 0 /\ tstate[s] = "none" /\ writer # s

\* The three exit paths: normal completion, an error raised in the body, and
\* an error raised by commit itself, the latter with a connection held.
C9_Witness ==
    /\ \E s \in Sessions : pc[s] = "raised" /\ commitCalls[s] = 1 /\ bodyExc[s] = "none"
    /\ \E s \in Sessions : Terminal(s) /\ (pc[s] = "returned" \/ bodyExc[s] # "none")


C11_RepositoriesOnlyFlush ==
    /\ [](\A s \in Sessions : pc[s] = "raised" => FlushedAbsent(s))
    /\ [][nops' # nops =>
             /\ db' = db
             /\ callVars' = callVars
             /\ \A s \in Sessions :
                    flushed'[s] # flushed[s] =>
                        /\ writer' = s
                        /\ tstate'[s] = "active"
                        /\ \A f \in flushed'[s] \ flushed[s] :
                               f[2] \in Ids(txn'[f[1]]) /\ f[2] \notin Ids(db'[f[1]])]_vars

\* Repository writes were flushed by a unit of work that then failed.
C11_Witness ==
    \E s \in Sessions :
        /\ pc[s] = "raised"
        /\ Cardinality(flushed[s]) >= 2


\* C13: when an indexing run has succeeded, every path it was given has
\* exactly one recording, whether or not one existed before; a run is never
\* rejected for a path that is taken unless another session created that
\* recording while the run was under way.
C13_RecordingPerPath ==
    /\ UniquePaths(db)
    /\ \A s \in Sessions :
           files[s] # <<>> =>
               /\ pc[s] = "returned" =>
                      \A p \in PathsOf(files[s]) :
                          Cardinality({r \in db.recording : r.path = p}) = 1
               /\ dupPath[s] # "-" =>
                      \E s2 \in Sessions \ {s} :
                          \E f \in flushed[s2] : f[1] = "recording"

\* Two runs over the same two files have succeeded; one of them found every
\* recording and created none.
C13_Witness ==
    /\ \A s \in Sessions : pc[s] = "returned" /\ Len(files[s]) = 2
    /\ PathsOf(files[1]) = PathsOf(files[2])
    /\ \E s \in Sessions : \A f \in flushed[s] : f[1] # "recording"
    /\ Cardinality(db.recording) = 2


\* Whether validate_integrity has to reject path p of filesystem d.
Offends(p, d) == d[p].kind # "file" \/ Lower(Suffix[p]) \notin {".h5", ".hdf5"}

\* C17: validate_integrity returns True exactly when no path offends, and
\* otherwise raises one error that names every offending path, in the order
\* given, with one line for each.
C17_ValidationReportsAll ==
    ret.op = "validate_integrity" =>
        LET offenders == SelectSeq(ret.paths, LAMBDA p : Offends(p, ret.disk)) IN
        /\ ret.out.ok <=> offenders = <<>>
        /\ ~ret.out.ok =>
               /\ ret.out.error.msg = "Integrity validation failed"
               /\ ret.out.error.paths = offenders
               /\ Len(ret.out.error.names) = Len(offenders)

\* validate_integrity was given two different paths that both offend, the
\* second for another reason than the first.
C17_Witness ==
    /\ ret.op = "validate_integrity"
    /\ ~ret.out.ok
    /\ Len(ret.out.error.paths) = 2
    /\ ret.out.error.paths[1] # ret.out.error.paths[2]
    /\ ret.out.error.names[1] # ret.out.error.names[2]

\* Whether compute_checksums cannot read path p of filesystem d.
Unreadable(p, d) == d[p].kind # "file" \/ ~d[p].readable

\* C18: compute_checksums raises for the first path it cannot read, naming
\* that path: the file-not-found error when the path does not exist, which
\* is neither the validation error nor the read-failure error; whenever it
\* raises, nothing is returned.
C18_ChecksumFailsOnMissing ==
    ret.op = "compute_checksums" =>
        LET bad == SelectSeq(ret.paths, LAMBDA p : Unreadable(p, ret.disk)) IN
        /\ ret.out.ok <=> bad = <<>>
        /\ ~ret.out.ok =>
               /\ DOMAIN ret.out = {"ok", "error"}
               /\ ret.out.error.paths = <<Head(bad)>>
               /\ IF ret.disk[Head(bad)].kind = "missing"
                  THEN /\ ret.out.error.msg = "Cannot compute checksum - file not found"
                       /\ ret.out.error.msg \notin {"Integrity validation failed",
                                                    "Checksum computation failed for"}
                  ELSE ret.out.error.msg = "Checksum computation failed for"

\* compute_checksums had hashed one file when it came to a path that does
\* not exist.
C18_Witness ==
    /\ ret.op = "compute_checksums"
    /\ ~ret.out.ok
    /\ Len(ret.paths) = 2
    /\ ret.disk[ret.paths[1]].kind = "file"
    /\ ret.disk[ret.paths[1]].readable
    /\ ret.disk[ret.paths[2]].kind = "missing"

\* C19: the mapping compute_checksums returns has one digest for each
\* distinct path given; each digest is DigestLength hexadecimal characters
\* and is the hash of that file's bytes alone, so files of equal content get
\* equal digests wherever they stand in the list.
C19_ChecksumOfContent ==
    (ret.op = "compute_checksums" /\ ret.out.ok) =>
        /\ DOMAIN ret.out.value = PathsOf(ret.paths)
        /\ \A p \in PathsOf(ret.paths) :
               /\ Len(ret.out.value[p]) = DigestLength
               /\ \A i \in 1..DigestLength :
                      \E k \in 1..Len(HexChars) : ret.out.value[p][i] = HexChars[k]
               /\ ret.out.value[p] = hexdigest(hash_update(sha256, ret.disk[p].bytes))
               /\ \A q \in PathsOf(ret.paths) :
                      ret.disk[p].bytes = ret.disk[q].bytes =>
                          ret.out.value[p] = ret.out.value[q]

\* Two files of equal content, longer than one read, were hashed one after
\* the other.
C19_Witness ==
    /\ ret.op = "compute_checksums"
    /\ ret.out.ok
    /\ Len(ret.paths) = 2
    /\ ret.paths[1] # ret.paths[2]
    /\ ret.disk[ret.paths[1]].bytes = ret.disk[ret.paths[2]].bytes
    /\ Len(ret.disk[ret.paths[1]].bytes) > ReadSize

\* C20: extract_hdf5_metadata returns metadata exactly for a regular file of
\* an accepted suffix that opens, parses and holds the four datasets; for a
\* container that lacks datasets it raises one error naming each missing
\* dataset once, no other, and the path; a file that does not open or parse
\* raises one error naming the path; whenever it raises, nothing is returned.
C20_ExtractReportsMissing ==
    ret.op = "extract_hdf5_metadata" =>
        LET p == ret.paths[1]
            e == ret.disk[p]
            opens == e.kind = "file" /\ Suffix[p] \in {".h5", ".hdf5"}
                     /\ e.readable /\ e.parses
            missing == RequiredKeys \ e.keys
        IN
        /\ ret.out.ok <=> (opens /\ missing = {})
        /\ ~ret.out.ok => DOMAIN ret.out = {"ok", "error"}
        /\ (opens /\ missing # {}) =>
               /\ PathsOf(ret.out.error.names) = missing
               /\ Len(ret.out.error.names) = Cardinality(missing)
               /\ ret.out.error.paths = <<p>>
        /\ (e.kind = "file" /\ Suffix[p] \in {".h5", ".hdf5"} /\ ~opens) =>
               ret.out.error.paths = <<p>>
        /\ ret.out.ok =>
               ret.out.value.num_syllables = e.on /\ ret.out.value.onsets = e.on

\* A container without two of its datasets, audio_filenames among them, was
\* rejected.
C20_Witness ==
    /\ ret.op = "extract_hdf5_metadata"
    /\ ~ret.out.ok
    /\ Len(ret.out.error.names) = 2
    /\ "audio_filenames" \in PathsOf(ret.out.error.names)


\* The run has ended, with a summary or with an error.
RunEnded == stage \in {"completed", "failed"}

\* C12: the stages of a run are executed in the order scan, validate,
\* checksum, populate, summary, each at most once; the run goes from
\* validation to checksumming exactly when no discovered file offends, and
\* populate is entered only with a checksum for every discovered file; a
\* stage that raises ends the run as failed, and a run that has ended
\* executes nothing more.
C12_StagesInOrder ==
    /\ [](/\ Len(stagesRun) <= Len(Stages)
          /\ stagesRun = SubSeq(Stages, 1, Len(stagesRun))
          /\ stage = "failed" => summary.status = "failed")
    /\ [][/\ RunEnded => UNCHANGED <<stage, stagesRun, summary, db, pc>>
          /\ (stage = "validating" /\ stage' # stage) =>
                 /\ stage' = IF validate_integrity(discovered, disk).ok
                             THEN "checksumming" ELSE "failed"
                 /\ UNCHANGED <<db, pc>>
          /\ (stage = "checksumming" /\ stage' # stage) =>
                 /\ stage' = IF compute_checksums(discovered, disk).ok
                             THEN "populating" ELSE "failed"
                 /\ UNCHANGED <<db, pc>>
          /\ (stagesRun' # stagesRun /\ stage' = "in_populate") =>
                 /\ stage = "populating"
                 /\ DOMAIN checksums = PathsOf(discovered)
                 /\ files'[RunSession] = discovered]_vars

\* A run failed in the checksum stage, after the validation had passed, and
\* never opened a session.
C12_Witness ==
    /\ stage = "failed"
    /\ stagesRun = SubSeq(Stages, 1, 3)
    /\ pc[RunSession] = "idle"

\* C14: a run that has completed over files it discovered reports their
\* number as indexed_files and as checksums_computed, and the number of
\* syllable rows it inserted as total_syllables.
C14_SummaryCounts ==
    (stage = "completed" /\ discovered # <<>>) =>
        /\ summary.status = "completed"
        /\ summary.indexed_files = Len(discovered)
        /\ summary.checksums_computed = Len(discovered)
        /\ summary.total_syllables =
               Cardinality({f \in flushed[RunSession] : f[1] = "syllable"})

\* C15: the summary of every run that has completed has a status, the
\* number of indexed files, the total of syllables, the number of checksums
\* computed and an empty list of errors.
C15_SummaryComplete ==
    stage = "completed" =>
        /\ {"status", "indexed_files", "total_syllables", "checksums_computed",
            "errors"} \subseteq DOMAIN summary
        /\ summary.errors = <<>>

\* C16: a run whose scan found nothing has completed with indexed_files = 0
\* and no errors, having executed no other stage, opened no session and
\* written no row.
C16_EmptyDiscovery ==
    (stagesRun # <<>> /\ discovered = <<>>) =>
        /\ stage = "completed"
        /\ summary.status = "completed"
        /\ summary.indexed_files = 0
        /\ summary.errors = <<>>
        /\ stagesRun = <<"scan">>
        /\ checksums = <<>>
        /\ \A s \in Sessions :
               pc[s] = "idle" /\ conn[s] = 0 /\ flushed[s] = {} /\ tstate[s] = "none"
        /\ writer = 0
        /\ seq = SeqOf(db)

\* A run over a catalog that holds rows found no file and has completed.
C16_Witness ==
    /\ stage = "completed"
    /\ discovered = <<>>
    /\ db = SeedDB


\* The rows a query returned, none when it raised.
AnswerRows(a) == IF a.out.ok THEN a.out.value ELSE <<>>

\* Rows ascend by (start_time, id).
AscendingByStartThenId(rows) ==
    \A i, j \in 1..Len(rows) :
        i < j => \/ rows[i].start_time < rows[j].start_time
                 \/ /\ rows[i].start_time = rows[j].start_time
                    /\ rows[i].id <= rows[j].id

\* C21: what QueryDSL.execute returns ascends by (start_time, id), whatever
\* filters were chained and in whatever order the table is scanned; no filter
\* call puts an ordering on the builder's query, and execute leaves the
\* builder as it was.
C21_ExecuteSortedAtExecuteTime ==
    /\ dsl # NoDSL => dsl.query.order_by = <<>>
    /\ (answer # NoCall /\ answer.op = "execute") =>
           /\ answer.out.ok
           /\ AscendingByStartThenId(answer.out.value)

\* An execute after a filter call returned two syllables of one start_time.
C21_Witness ==
    /\ answer # NoCall
    /\ answer.op = "execute"
    /\ dsl.calls # <<>>
    /\ Len(AnswerRows(answer)) >= 2
    /\ \E i, j \in 1..Len(AnswerRows(answer)) :
           /\ i < j
           /\ AnswerRows(answer)[i].start_time = AnswerRows(answer)[j].start_time
           /\ AnswerRows(answer)[i].id < AnswerRows(answer)[j].id

\* The ids of the rows a query returned, in their order.
IdsInOrder(a) == [i \in 1..Len(AnswerRows(a)) |-> AnswerRows(a)[i].id]

\* C22: a repository read or a QueryDSL query made again on the same rows, with
\* the tables scanned in any order, returns the ids it returned before, in the
\* same order.
C22_RepeatedQueriesAgree ==
    [][(answer # NoCall /\ answer' # NoCall /\ answer'.again)
           => /\ answer'.op = answer.op
              /\ answer'.args = answer.args
              /\ IdsInOrder(answer') = IdsInOrder(answer)]_vars

\* A query made again returned two rows that agree on the first column of
\* their order.
C22_Witness ==
    /\ answer # NoCall
    /\ answer.again
    /\ \/ /\ answer.op = "filter_by_model_tag"
          /\ \E i, j \in 1..Len(AnswerRows(answer)) :
                 /\ i < j
                 /\ AnswerRows(answer)[i].syllable_id = AnswerRows(answer)[j].syllable_id
       \/ /\ answer.op = "execute"
          /\ \E i, j \in 1..Len(AnswerRows(answer)) :
                 /\ i < j
                 /\ AnswerRows(answer)[i].id # AnswerRows(answer)[j].id
                 /\ AnswerRows(answer)[i].start_time = AnswerRows(answer)[j].start_time

\* The ids of the syllables a QueryDSL with the one filter call c returns.
AloneIds(c) ==
    LET st == CHOOSE x \in Storages(catalog, {}) : TRUE
        out == execute(Filtered(QueryDSL, c), st)
    IN  {out.value[i].id : i \in 1..Len(out.value)}

\* C23: the syllables execute returns are those that each of the chained
\* filter calls returns when it is the only call on a builder.
C23_ChainIsIntersection ==
    (answer # NoCall /\ answer.op = "execute") =>
        {AnswerRows(answer)[i].id : i \in 1..Len(AnswerRows(answer))}
            = {y \in Ids(catalog.syllable) :
                  \A k \in 1..Len(answer.args) : y \in AloneIds(answer.args[k])}

\* The builder's query names each joined entity once.
JoinedAtMostOnce ==
    dsl # NoDSL =>
        /\ \A i, j \in 1..Len(dsl.query.froms) :
               dsl.query.froms[i] = dsl.query.froms[j] => i = j
        /\ {dsl.query.froms[i] : i \in 1..Len(dsl.query.froms)} = dsl.joins

\* A filter call that was made on the builder before is made again.
RepeatedCall ==
    /\ dsl # NoDSL
    /\ dsl' # NoDSL
    /\ Len(dsl'.calls) = Len(dsl.calls) + 1
    /\ \E k \in 1..Len(dsl.calls) : dsl.calls[k] = dsl'.calls[Len(dsl'.calls)]

\* C24: a builder's query joins Annotation, Embedding and Recording once each
\* at most, and a filter call made a second time with the same arguments,
\* after an execute or not, leaves what execute returns as it was.
C24_JoinOnceRepeatIdempotent ==
    /\ []JoinedAtMostOnce
    /\ [][RepeatedCall =>
             \A st \in Storages(catalog, {"syllable"}) :
                 /\ execute(dsl', st).ok
                 /\ execute(dsl', st) = execute(dsl, st)]_vars

\* A builder on which one label filter was called twice has been executed
\* and returned a syllable.
C24_Witness ==
    /\ answer # NoCall
    /\ answer.op = "execute"
    /\ Len(dsl.calls) = 2
    /\ dsl.calls[1] = dsl.calls[2]
    /\ dsl.calls[1].method = "filter_by_label"
    /\ dsl.joins = {"annotation"}
    /\ AnswerRows(answer) # <<>>

\* The duration of a syllable.
DurationOf(y) == y.end_time - y.start_time

\* C25: SyllableRepository.filter_by_duration(min, max) returns the syllables
\* whose duration is at least min and at most max, and those whose duration
\* is at least min when max is absent.
C25_DurationBoundsInclusive ==
    (answer # NoCall /\ answer.op = "filter_by_duration") =>
        LET min == answer.args[1]
            max == answer.args[2]
        IN  /\ answer.out.ok
            /\ {AnswerRows(answer)[i] : i \in 1..Len(AnswerRows(answer))}
                   = {y \in catalog.syllable :
                         /\ min <= DurationOf(y)
                         /\ max # None => DurationOf(y) <= max}

\* The URL of the configuration a command has validated.
UrlOf(c) == Configured(c.file).out.value.database.url

\* A URL is of the embedded form or of the client/server form when the name
\* before its colon, up to a +driver, is sqlite or postgresql.
OfKnownForm(url) == Before(Before(url, ":"), "+") \in {sqlite, postgresql}

\* A command has called create_engine_from_url.
EngineAsked ==
    /\ cli # NoCli
    /\ \E i \in 1..Len(cli.calls) : cli.calls[i] = "create_engine_from_url"

WronglyTyped(config_dict) ==
    \/ \E f \in BoolFields : config_dict[f[1]][f[2]].type \notin {"bool", "unset"}
    \/ \E f \in StrFields : config_dict[f[1]][f[2]].type \notin {"str", "unset"}

\* The ingest command has gone past its dispatch with a document that is a
\* mapping.
IngestOf(c) ==
    /\ c # NoCli
    /\ c.command = "ingest"
    /\ c.pc # "dispatched"
    /\ c.file.kind = "file"
    /\ c.file.yaml = "mapping"

\* C27: the ingest command given a document with a wrongly typed field ends
\* with a validation error, and has made no call after the validation: no
\* engine exists, no connection is open, no indexer was constructed and no
\* run has started.
C27_WrongTypeRejectedFirst ==
    (IngestOf(cli) /\ WronglyTyped(cli.file.data)) =>
        /\ cli.pc = "exited"
        /\ cli.exit = 1
        /\ cli.calls = <<"load_config", "model_validate">>
        /\ \E i \in 1..Len(cli.out) : cli.out[i].text = "ValidationError"
        /\ engine = "none"
        /\ pool = <<>>
        /\ stage = "idle"

\* Something the dispatched command did has failed: the configuration was
\* not loaded or not valid, the engine was not created, the indexing run
\* raised, or the unit of work of the status command did.
CommandFailed ==
    \/ ~Configured(cli.file).out.ok
    \/ cli.command # "validate" /\ ~Connected(cli.file).out.ok
    \/ cli.command = "ingest" /\ stage = "failed"
    \/ cli.command = "status" /\ pc[RunSession] = "raised"

\* C28: a command that has failed ends with a non-zero exit status and a
\* message that holds, under the layers wrapped around it, the error it began
\* with, and the path of a discovered file when an indexing run failed; a
\* command of which nothing failed ends with exit status 0.
C28_FailureExitsNonZeroWithCause ==
    (cli # NoCli /\ cli.pc = "exited" /\ cli.command # "") =>
        /\ CommandFailed <=> cli.exit # 0
        /\ CommandFailed =>
               /\ Len(cli.out) >= 2
               /\ stage = "failed" =>
                      /\ cli.out[2].text = "Indexing workflow failed"
                      /\ Len(cli.out) >= 3
                      /\ \E i \in 1..Len(cli.out) :
                             cli.out[i].paths \cap PathsOf(discovered) # {}

\* C29: a run that has ended as failed has left none of the recordings and
\* syllables it flushed among the committed rows.
C29_FailedRunLeavesNothing ==
    stage = "failed" => FlushedAbsent(RunSession)

\* The rows an indexing run p has flushed that a read of session r returns.
SeenOf(r, p) == {f \in flushed[p] : f[2] \in Ids(View(r)[f[1]])}

\* C30: whatever another session reads while or after an indexing run
\* populates, it finds none of the recordings and syllables the run has
\* flushed, or, once the run has committed, all of them.
C30_ReadersSeeNoneOrAll ==
    \A p \in Sessions : \A r \in Sessions \ {p} :
        files[p] # <<>> =>
            \/ SeenOf(r, p) = {}
            \/ /\ SeenOf(r, p) = flushed[p]
               /\ commitCalls[p] = 1
               /\ pc[p] \in {"finally", "returned"}

\* A run holds a recording and syllables it has flushed and not committed
\* while another session, which has read inside its own unit of work, is
\* still in its with block.
C30_Witness ==
    \E p \in Sessions : \E r \in Sessions \ {p} :
        /\ writer = p
        /\ pc[p] = "p_done"
        /\ \E f \in flushed[p] : f[1] = "recording"
        /\ \E f \in flushed[p] : f[1] = "syllable"
        /\ pc[r] = "body"
        /\ tstate[r] = "active"

\* C33: what QueryDSL.execute returns holds no syllable twice.
C33_EachSyllableOnce ==
    (answer # NoCall /\ answer.op = "execute") =>
        \A i, j \in 1..Len(AnswerRows(answer)) :
            AnswerRows(answer)[i].id = AnswerRows(answer)[j].id => i = j

\* Whether another session has created, committed or not, a recording of the
\* file session s is about to create one for.
Taken(s) ==
    \E s2 \in Sessions \ {s} :
        \E r \in txn.recording \cup db.recording :
            r.path = File(s) /\ <<"recording", r.id>> \in flushed[s2]

\* C31: no path ever has two committed recordings and no committed recording
\* is lost; a run that found no recording of its file, while another session
\* has created one of that path meanwhile, has its create rejected without a
\* change of the committed rows and leaves as RuntimeError; and a run that
\* ends with an error has committed none of the rows it flushed.
C31_RaceLoserFailsWhole ==
    /\ [](/\ UniquePaths(db)
          /\ \A s \in Sessions :
                 (files[s] # <<>> /\ Terminal(s) /\ exc[s] # "none") =>
                     pc[s] = "raised" /\ commitCalls[s] = 0 /\ FlushedAbsent(s))
    /\ [][/\ \A r \in db.recording : r \in db'.recording
          /\ \A s \in Sessions :
                 (pc[s] = "p_create" /\ pc'[s] # "p_create" /\ Taken(s)) =>
                     /\ pc'[s] = "except"
                     /\ exc'[s] = "RuntimeError"
                     /\ flushed'[s] = flushed[s]
                     /\ db' = db]_vars

\* Two runs looked the same file up before either had committed and both
\* found no recording; one created and committed it, the other had its
\* create rejected and has ended with the error.
C31_Witness ==
    \E s, s2 \in Sessions :
        /\ s # s2
        /\ files[s] # <<>> /\ files[s2] # <<>>
        /\ pc[s] = "raised" /\ stmtFailed[s] /\ bodyExc[s] = "RuntimeError"
        /\ fs[File(s)].ok
        /\ pc[s2] = "returned"
        /\ \E r \in db.recording :
               r.path = File(s) /\ <<"recording", r.id>> \in flushed[s2]

\* Whether the indexing run of session s has committed.
Succeeded(s) ==
    files[s] # <<>> /\ exc[s] = "none" /\ pc[s] \in {"finally", "returned"}

\* The successful runs that indexed path p.
RunsOver(p) == {s \in Sessions : Succeeded(s) /\ p \in PathsOf(files[s])}

\* The committed syllables of path p that indexing runs inserted.
IndexedRows(p) ==
    {y \in db.syllable :
        /\ \E r \in db.recording : r.path = p /\ r.id = y.recording_id
        /\ \E s \in Sessions : <<"syllable", y.id>> \in flushed[s]}

\* C32: a path that k successful runs indexed has one recording, which all
\* of them share, and k times the rows of its file.
C32_RerunsMultiplySyllables ==
    \A p \in Paths :
        /\ RunsOver(p) # {} =>
               Cardinality({r \in db.recording : r.path = p}) = 1
        /\ Cardinality(IndexedRows(p)) = Cardinality(RunsOver(p)) * fs[p].n

\* Two runs over one file of MaxSegs segments have succeeded; the second one
\* created no recording, and the file has twice MaxSegs syllables.
C32_Witness ==
    \E p \in Paths :
        /\ RunsOver(p) = Sessions
        /\ fs[p].n = MaxSegs
        /\ \E s \in Sessions : \A f \in flushed[s] : f[1] # "recording"
        /\ Cardinality(IndexedRows(p)) = 2 * MaxSegs

\* C34: when a run has completed, the recording of every file it indexed
\* carries the checksum the run computed for that file.
C34_StoredChecksumIsRunDigest ==
    stage = "completed" =>
        \A p \in PathsOf(discovered) :
            \A r \in db.recording : r.path = p => r.checksum = checksums[p]

\* C35: no committed syllable ends before it starts.
C35_EndNotBeforeStart ==
    \A y \in db.syllable : y.end_time >= y.start_time

\* How far a run has come.
StageRank ==
    [x \in {"idle", "validating", "checksumming", "populating", "in_populate",
            "completed", "failed"} |->
        CASE x = "idle" -> 0
          [] x = "validating" -> 1
          [] x = "checksumming" -> 2
          [] x = "populating" -> 3
          [] x = "in_populate" -> 4
          [] OTHER -> 5]

\* C36: a run that has begun ends, as completed with the summary it returns
\* or as failed with the error it raises, never both; once ended it stays as
\* it ended; every change of stage is a step forward, and no stage is
\* executed twice.
C36_RunEndsOnce ==
    /\ (stage # "idle") ~> RunEnded
    /\ [](/\ stage = "completed" <=> summary.status = "completed"
          /\ stage = "failed" <=> summary.status = "failed"
          /\ \A i, j \in 1..Len(stagesRun) : stagesRun[i] = stagesRun[j] => i = j)
    /\ [][/\ RunEnded => (stage' = stage /\ summary' = summary)
          /\ stage' # stage => StageRank[stage'] > StageRank[stage]]_vars

\* A run went through every stage and has completed.
C36_Witness ==
    /\ stage = "completed"
    /\ stagesRun = Stages
    /\ pc[RunSession] = "returned"

\* C37: every digest compute_checksums returns has the length of the
\* hexdigest of the algorithm that ingest.checksum names.
C37_DigestOfConfiguredAlgorithm ==
    (ret.op = "compute_checksums" /\ ret.out.ok) =>
        \A p \in DOMAIN ret.out.value :
            Len(ret.out.value[p]) = hexdigest_length[ret.config.ingest.checksum]

\* The checks extract_hdf5_metadata makes before it opens the file.
PassesExtractChecks(p, d) ==
    LET r == extract_hdf5_metadata(p, d) IN
    r.ok \/ r.error.msg \notin {"HDF5 file not found or not a file",
                                "Invalid file extension"}

\* C38: every path of a list that validate_integrity accepted passes the
\* existence and extension checks of extract_hdf5_metadata and has a suffix
\* that scan_files keeps.
C38_StagesAgreeOnExtensions ==
    (ret.op = "validate_integrity" /\ ret.out.ok) =>
        \A p \in PathsOf(ret.paths) :
            PassesExtractChecks(p, ret.disk) /\ scan_keeps(p)

\* C39: the step in which a command creates its engine changes no committed
\* row and hands out no key, whatever the database holds; and an init
\* command whose configuration is valid and whose URL makes an engine ends
\* with exit status 0 and the engine created.
C39_CreateIfMissing ==
    /\ []((/\ cli # NoCli
            /\ cli.pc = "exited"
            /\ cli.command = "init"
            /\ Connected(cli.file).out.ok) =>
               cli.exit = 0 /\ engine = Connected(cli.file).out.value)
    /\ [][engine' # engine => (db' = db /\ seq' = seq)]_vars

\* init was run on a database that holds the rows of an earlier run, and has
\* ended well with those rows in place.
C39_Witness ==
    /\ cli # NoCli
    /\ cli.pc = "exited" /\ cli.command = "init" /\ cli.exit = 0
    /\ engine = "sqlite"
    /\ db = SeedDB

====
